---- MODULE Spec2Model ----
(***************************************************************************)
(* Model of the HTTPDNS resolution engine: Resolver (src/src/resolver.ts), *)
(* CacheManager / CacheEntry (src/unnamed/part_010), NetworkManager (the   *)
(* second half of src/src/types.ts), ServiceIPManager                      *)
(* (src/src/utils/ip-pool.ts), the error factories (second half of         *)
(* src/dist/config.d.ts) and the helpers (src/unnamed/part_005).           *)
(*                                                                         *)
(* Execution model: Node's single-threaded event loop.  One action is one  *)
(* synchronous run of a handler together with the promise continuations    *)
(* that follow it without any I/O in between; the only suspension points   *)
(* that other work can interleave with are the HTTP requests.  All         *)
(* Date.now() reads of one action see the same instant `now`.              *)
(***************************************************************************)
EXTENDS Integers, Sequences, FiniteSets, Bags, TLC

VARIABLES
    config,        \* MergedConfig: enableCache, enableExpiredIP, maxRetries, bootstrapIPs
    now,           \* Date.now() in milliseconds
    cache,         \* CacheManager.cache: domain -> CacheEntry (partial map)
    serviceIPs,    \* ServiceIPManager.serviceIPs
    currentIP,     \* ServiceIPManager.currentIP
    failedIPs,     \* ServiceIPManager.failedIPs: ip -> failure time
    fetching,      \* NetworkManager.fetchServiceIPsPromise: <<>> or <<run>>
    tasks,         \* bag of resolutions suspended on their HTTP request
    calls,         \* number of public calls made so far
    last,          \* what the step just taken did and returned
    client         \* HTTPDNSClientImpl: closed, updateTimer set, and the number
                   \* of its callers awaiting the discovery run in flight

vars == <<config, now, cache, serviceIPs, currentIP, failedIPs, fetching,
          tasks, calls, last, client>>

(***************************************************************************)
(* Bounds of the exploration                                               *)
(***************************************************************************)
MaxRetriesBound == 2
MaxTasks == 2
MaxCalls == 2
MaxLongTicks == 1
MaxShortTicks == 1
MaxTimerFires == 1
MaxStaleCalls == 3

(***************************************************************************)
(* Program constants                                                       *)
(***************************************************************************)
MS_PER_SECOND == 1000
FAIL_COOLDOWN_MS == 5 * 60 * 1000
MAX_LABEL_MIDDLE == 61
MAX_DOMAIN_LENGTH == 253
MAX_PRERESOLVE_HOSTS == 100
BATCH_SIZE == 5
DEFAULT_BOOTSTRAP_DOMAIN == "resolvers-cn.httpdns.aliyuncs.com"

Undefined == "undefined"
None == <<>>
Some(x) == <<x>>

QT_IPv4 == "4"
QT_IPv6 == "6"
QT_Both == "4,6"

(***************************************************************************)
(* Strings are sequences of one-character strings, so that the helpers     *)
(* that inspect characters can be computed as the code computes them.      *)
(***************************************************************************)
AlnumChars ==
    {"a","b","c","d","e","f","g","h","i","j","k","l","m","n","o","p","q",
     "r","s","t","u","v","w","x","y","z",
     "A","B","C","D","E","F","G","H","I","J","K","L","M","N","O","P","Q",
     "R","S","T","U","V","W","X","Y","Z",
     "0","1","2","3","4","5","6","7","8","9"}

RECURSIVE SplitAcc(_, _, _, _)
SplitAcc(s, sep, cur, acc) ==
    IF s = <<>> THEN Append(acc, cur)
    ELSE IF Head(s) = sep THEN SplitAcc(Tail(s), sep, <<>>, Append(acc, cur))
    ELSE SplitAcc(Tail(s), sep, Append(cur, Head(s)), acc)

\* String.prototype.split(sep)
Split(s, sep) == SplitAcc(s, sep, <<>>, <<>>)

RECURSIVE TrimLeft(_)
TrimLeft(s) ==
    IF s # <<>> /\ Head(s) = " " THEN TrimLeft(Tail(s)) ELSE s

RECURSIVE TrimRight(_)
TrimRight(s) ==
    IF s # <<>> /\ s[Len(s)] = " " THEN TrimRight(SubSeq(s, 1, Len(s) - 1)) ELSE s

\* String.prototype.trim()
Trim(s) == TrimRight(TrimLeft(s))

\* one label of the domain regex: [a-zA-Z0-9]([a-zA-Z0-9-]{0,61}[a-zA-Z0-9])?
IsLabel(l) ==
    /\ Len(l) >= 1
    /\ l[1] \in AlnumChars
    /\ Len(l) >= 2 =>
         /\ l[Len(l)] \in AlnumChars
         /\ Len(l) - 2 <= MAX_LABEL_MIDDLE
         /\ \A i \in 2..(Len(l) - 1) : l[i] \in AlnumChars \cup {"-"}

\* helpers.isValidDomain
isValidDomain(domain) ==
    /\ domain # <<>>
    /\ \A i \in 1..Len(Split(domain, ".")) : IsLabel(Split(domain, ".")[i])
    /\ Len(domain) <= MAX_DOMAIN_LENGTH

\* helpers.parseQueryType
parseQueryType(queryType) ==
    IF queryType = Undefined THEN QT_Both
    ELSE IF queryType \in {QT_IPv4, QT_IPv6, QT_Both} THEN queryType
    ELSE QT_Both

\* validateSingleResolveParams without the format test: the variant the
\* input-validation property is tried against
validateSingleResolveParamsNonEmptyOnly(domain) ==
    IF domain = <<>> THEN Some("Domain must be a non-empty string") ELSE None

\* Resolver.validateSingleResolveParams: the message of the Error it throws,
\* or None when the domain is accepted
validateSingleResolveParams(domain) ==
    IF domain = <<>> THEN Some("Domain must be a non-empty string")
    ELSE IF ~isValidDomain(domain) THEN Some("Invalid domain format")
    ELSE None

Digits == {"0","1","2","3","4","5","6","7","8","9"}
HexChars == Digits \cup {"a","b","c","d","e","f","A","B","C","D","E","F"}
AllIn(s, chars) == \A i \in 1..Len(s) : s[i] \in chars

\* Resolver.isIPAddress: (\d{1,3}\.){3}\d{1,3}, or
\* ([0-9a-fA-F]{0,4}:){2,7}[0-9a-fA-F]{0,4}
isIPAddress(domain) ==
    LET p4 == Split(domain, ".")
        p6 == Split(domain, ":")
    IN  \/ /\ Len(p4) = 4
           /\ \A i \in 1..Len(p4) : Len(p4[i]) \in 1..3 /\ AllIn(p4[i], Digits)
        \/ /\ Len(p6) \in 3..8
           /\ \A i \in 1..Len(p6) : Len(p6[i]) <= 4 /\ AllIn(p6[i], HexChars)

\* Array.prototype.join(sep) on strings
RECURSIVE Join(_, _)
Join(parts, sep) ==
    IF parts = <<>> THEN <<>>
    ELSE IF Len(parts) = 1 THEN parts[1]
    ELSE parts[1] \o <<sep>> \o Join(Tail(parts), sep)

(***************************************************************************)
(* CacheEntry and CacheManager                                             *)
(***************************************************************************)
\* CacheEntry.constructor, run at instant t
CacheEntry(result, t) ==
    [domain |-> result.domain,
     ipv4 |-> result.ipv4,
     ipv4Ttl |-> result.ipv4Ttl,
     ipv4ExpireTime |-> t + result.ipv4Ttl * MS_PER_SECOND,
     ipv4Timestamp |-> result.ipv4Timestamp,
     ipv6 |-> result.ipv6,
     ipv6Ttl |-> result.ipv6Ttl,
     ipv6ExpireTime |-> t + result.ipv6Ttl * MS_PER_SECOND,
     ipv6Timestamp |-> result.ipv6Timestamp]

\* isExpired with the deadline itself counted as expired: the variant the
\* fresh-hit property is tried against
isExpiredAtDeadline(entry, queryType, t) ==
    IF queryType = QT_IPv4 THEN t >= entry.ipv4ExpireTime
    ELSE IF queryType = QT_IPv6 THEN t >= entry.ipv6ExpireTime
    ELSE t >= entry.ipv4ExpireTime \/ t >= entry.ipv6ExpireTime

\* CacheEntry.isExpired
isExpired(entry, queryType, t) ==
    IF queryType = QT_IPv4 THEN t > entry.ipv4ExpireTime
    ELSE IF queryType = QT_IPv6 THEN t > entry.ipv6ExpireTime
    ELSE t > entry.ipv4ExpireTime \/ t > entry.ipv6ExpireTime

\* CacheEntry.toResolveResult
toResolveResult(entry, queryType) ==
    [domain |-> entry.domain,
     ipv4 |-> IF queryType = QT_IPv6 THEN <<>> ELSE entry.ipv4,
     ipv4Ttl |-> entry.ipv4Ttl,
     ipv4Timestamp |-> entry.ipv4Timestamp,
     ipv6 |-> IF queryType = QT_IPv4 THEN <<>> ELSE entry.ipv6,
     ipv6Ttl |-> entry.ipv6Ttl,
     ipv6Timestamp |-> entry.ipv6Timestamp]

UpdateV4(entry, queryType, result, t) ==
    IF queryType \in {QT_IPv4, QT_Both} /\ result.ipv4Ttl > 0
    THEN [entry EXCEPT !.ipv4 = result.ipv4,
                       !.ipv4Ttl = result.ipv4Ttl,
                       !.ipv4ExpireTime = t + result.ipv4Ttl * MS_PER_SECOND,
                       !.ipv4Timestamp = result.ipv4Timestamp]
    ELSE entry

UpdateV6(entry, queryType, result, t) ==
    IF queryType \in {QT_IPv6, QT_Both} /\ result.ipv6Ttl > 0
    THEN [entry EXCEPT !.ipv6 = result.ipv6,
                       !.ipv6Ttl = result.ipv6Ttl,
                       !.ipv6ExpireTime = t + result.ipv6Ttl * MS_PER_SECOND,
                       !.ipv6Timestamp = result.ipv6Timestamp]
    ELSE entry

\* update refreshing both families whatever the selector: the variant the
\* partial update is tried against
updateAnyFamily(entry, queryType, result, t) ==
    UpdateV6(UpdateV4(entry, QT_Both, result, t), QT_Both, result, t)

\* CacheEntry.update
update(entry, queryType, result, t) ==
    UpdateV6(UpdateV4(entry, queryType, result, t), queryType, result, t)

\* getExpiredTypes asking for both families whatever has expired: the
\* variant the refresh-scope property is tried against
getExpiredTypesAlwaysBoth(entry, t) == QT_Both

\* CacheEntry.getExpiredTypes
getExpiredTypes(entry, t) ==
    LET v4Expired == t > entry.ipv4ExpireTime
        v6Expired == t > entry.ipv6ExpireTime
    IN  IF v4Expired /\ v6Expired THEN QT_Both
        ELSE IF v4Expired THEN QT_IPv4
        ELSE IF v6Expired THEN QT_IPv6
        ELSE QT_Both

MapPut(m, k, v) == [x \in DOMAIN m \cup {k} |-> IF x = k THEN v ELSE m[x]]
MapDelete(m, k) == [x \in DOMAIN m \ {k} |-> m[x]]
EmptyMap == [x \in {} |-> x]

\* CacheManager.get without the delete of an expired entry: the variant the
\* expired-is-a-miss property is tried against
CacheGetKeepsExpired(c, domain, queryType, enableExpiredIP, t) ==
    IF domain \notin DOMAIN c THEN [entry |-> None, cache |-> c]
    ELSE IF isExpired(c[domain], queryType, t) /\ ~enableExpiredIP
         THEN [entry |-> None, cache |-> c]
         ELSE [entry |-> Some(c[domain]), cache |-> c]

\* CacheManager.get: the entry handed back (None for null) and the map after
CacheGet(c, domain, queryType, enableExpiredIP, t) ==
    IF domain \notin DOMAIN c THEN [entry |-> None, cache |-> c]
    ELSE IF isExpired(c[domain], queryType, t) /\ ~enableExpiredIP
         THEN [entry |-> None, cache |-> MapDelete(c, domain)]
         ELSE [entry |-> Some(c[domain]), cache |-> c]

\* set leaving an entry that is there as it is: the variant the
\* last-writer-wins property is tried against
CacheSetKeepsExisting(c, domain, queryType, result, t) ==
    IF domain \in DOMAIN c THEN c
    ELSE IF CacheEntry(result, t).ipv4Ttl > 0 \/ CacheEntry(result, t).ipv6Ttl > 0
         THEN MapPut(c, domain, CacheEntry(result, t))
         ELSE c

\* CacheManager.set: an existing entry is updated in place, a new one is
\* stored only when one of its TTLs is positive
CacheSet(c, domain, queryType, result, t) ==
    IF domain \in DOMAIN c
    THEN MapPut(c, domain, update(c[domain], queryType, result, t))
    ELSE IF CacheEntry(result, t).ipv4Ttl > 0 \/ CacheEntry(result, t).ipv6Ttl > 0
         THEN MapPut(c, domain, CacheEntry(result, t))
         ELSE c

(***************************************************************************)
(* ServiceIPManager; a pool is [serviceIPs, currentIP, failedIPs]          *)
(***************************************************************************)
Includes(list, x) == \E i \in 1..Len(list) : list[i] = x

\* isIPAvailable with the cooldown over at five minutes sharp: the variant
\* the cooldown property is tried against
isIPAvailableAtFiveMinutes(pool, ip, t) ==
    IF ip \notin DOMAIN pool.failedIPs THEN TRUE
    ELSE t - pool.failedIPs[ip] >= FAIL_COOLDOWN_MS

\* ServiceIPManager.isIPAvailable
isIPAvailable(pool, ip, t) ==
    IF ip \notin DOMAIN pool.failedIPs THEN TRUE
    ELSE t - pool.failedIPs[ip] > FAIL_COOLDOWN_MS

\* updateServiceIPs restarting from the head of every list it installs: the
\* variant the rule for the current endpoint is tried against
updateServiceIPsFromHead(pool, ips) ==
    [pool EXCEPT !.serviceIPs = ips,
                 !.currentIP = IF Len(ips) > 0 THEN ips[1] ELSE Undefined]

\* updateServiceIPs installing the list and nothing else: the variant the
\* membership of the current endpoint is tried against
updateServiceIPsListOnly(pool, ips) ==
    [pool EXCEPT !.serviceIPs = ips]

\* updateServiceIPs forgetting the failures with the old list: the variant
\* the persistence of failure records is tried against
updateServiceIPsForgetsFailures(pool, ips) ==
    [pool EXCEPT !.serviceIPs = ips,
                 !.currentIP = IF Len(ips) = 0 THEN Undefined
                               ELSE IF pool.currentIP # Undefined /\ Includes(ips, pool.currentIP)
                                    THEN pool.currentIP
                               ELSE ips[1],
                 !.failedIPs = EmptyMap]

\* markIPSuccess forcing a new selection: the variant the stickiness of the
\* current endpoint is tried against
markIPSuccessReselects(pool, ip) ==
    [pool EXCEPT !.failedIPs = MapDelete(pool.failedIPs, ip),
                 !.currentIP = Undefined]

\* ServiceIPManager.updateServiceIPs
updateServiceIPs(pool, ips) ==
    LET cur == pool.currentIP
        newCur == IF cur # Undefined /\ Len(ips) > 0 /\ ~Includes(ips, cur) THEN ips[1]
                  ELSE IF Len(ips) > 0 /\ cur = Undefined THEN ips[1]
                  ELSE IF Len(ips) = 0 THEN Undefined
                  ELSE cur
    IN  [pool EXCEPT !.serviceIPs = ips, !.currentIP = newCur]

\* the search loop running from the end of the list: the variant the
\* rotation order is tried against
LastAvailable(pool, t) ==
    LET idx == {i \in 1..Len(pool.serviceIPs) : isIPAvailable(pool, pool.serviceIPs[i], t)}
    IN  IF idx = {} THEN Undefined
        ELSE pool.serviceIPs[CHOOSE i \in idx : \A j \in idx : i >= j]

\* the search loop of getAvailableServiceIP: the first available list member
FirstAvailable(pool, t) ==
    LET idx == {i \in 1..Len(pool.serviceIPs) : isIPAvailable(pool, pool.serviceIPs[i], t)}
    IN  IF idx = {} THEN Undefined
        ELSE pool.serviceIPs[CHOOSE i \in idx : \A j \in idx : i <= j]

\* getAvailableServiceIP handing out the current endpoint without looking at
\* its failure record: the variant the selection rule is tried against
getAvailableServiceIPKeepsCurrent(pool, t) ==
    IF Len(pool.serviceIPs) = 0 THEN [ip |-> Undefined, pool |-> pool]
    ELSE IF pool.currentIP # Undefined /\ Includes(pool.serviceIPs, pool.currentIP)
         THEN [ip |-> pool.currentIP, pool |-> pool]
    ELSE IF FirstAvailable(pool, t) # Undefined
         THEN [ip |-> FirstAvailable(pool, t),
               pool |-> [pool EXCEPT !.currentIP = FirstAvailable(pool, t)]]
    ELSE [ip |-> pool.serviceIPs[1],
          pool |-> [pool EXCEPT !.currentIP = pool.serviceIPs[1]]]

\* ServiceIPManager.getAvailableServiceIP: the ip handed back (Undefined for
\* null) and the pool after
getAvailableServiceIP(pool, t) ==
    IF Len(pool.serviceIPs) = 0 THEN [ip |-> Undefined, pool |-> pool]
    ELSE IF /\ pool.currentIP # Undefined
            /\ Includes(pool.serviceIPs, pool.currentIP)
            /\ isIPAvailable(pool, pool.currentIP, t)
         THEN [ip |-> pool.currentIP, pool |-> pool]
    ELSE IF FirstAvailable(pool, t) # Undefined
         THEN [ip |-> FirstAvailable(pool, t),
               pool |-> [pool EXCEPT !.currentIP = FirstAvailable(pool, t)]]
    ELSE [ip |-> pool.serviceIPs[1],
          pool |-> [pool EXCEPT !.currentIP = pool.serviceIPs[1]]]

\* ServiceIPManager.markIPFailed
markIPFailed(pool, ip, t) ==
    [pool EXCEPT !.failedIPs = MapPut(pool.failedIPs, ip, t),
                 !.currentIP = IF pool.currentIP = ip THEN Undefined ELSE pool.currentIP]

\* ServiceIPManager.markIPSuccess
markIPSuccess(pool, ip) ==
    [pool EXCEPT !.failedIPs = MapDelete(pool.failedIPs, ip)]

Pool == [serviceIPs |-> serviceIPs, currentIP |-> currentIP, failedIPs |-> failedIPs]

(***************************************************************************)
(* Errors.  An error is [cls, operation, domain, code, status, message,    *)
(* original]; a message is the sequence of its words.                      *)
(***************************************************************************)
RawError(code, status, message) ==
    [cls |-> "Error", operation |-> "", domain |-> <<>>, code |-> code,
     status |-> status, message |-> message, original |-> None]

\* class HTTPDNSError
HTTPDNSError(operation, domain, originalError) ==
    [cls |-> "HTTPDNSError", operation |-> operation, domain |-> domain,
     code |-> "", status |-> 0,
     message |-> <<"httpdns", operation, ":">> \o originalError.message,
     original |-> Some(originalError)]

\* errors.createNetworkError
createNetworkError(domain, originalError) ==
    LET isTimeout == \/ Includes(originalError.message, "timeout")
                     \/ Includes(originalError.message, "ETIMEDOUT")
                     \/ originalError.code = "ECONNABORTED"
    IN  HTTPDNSError(IF isTimeout THEN "TIMEOUT_ERROR" ELSE "NETWORK_ERROR",
                     domain, originalError)

\* errors.createAuthFailedError
createAuthFailedError(domain) ==
    HTTPDNSError("AUTH_ERROR", domain, RawError("", 0, <<"Authentication", "failed">>))

\* errors.createParseError
createParseError(domain, originalError) ==
    HTTPDNSError("PARSE_ERROR", domain, originalError)

NETWORK_ERROR_CODES ==
    {"ECONNRESET", "ECONNREFUSED", "ETIMEDOUT", "ENOTFOUND", "EAI_AGAIN", "ECONNABORTED"}

\* shouldRetry with the 403 test lost: the variant the no-retry property is
\* tried against
shouldRetryWithout403(error) ==
    IF error.status = 401 THEN FALSE
    ELSE IF error.cls = "HTTPDNSError" /\ error.operation = "CONFIG_ERROR" THEN FALSE
    ELSE IF error.cls = "HTTPDNSError" /\ error.operation = "AUTH_ERROR" THEN FALSE
    ELSE TRUE

\* NetworkManager.shouldRetry
shouldRetry(error) ==
    IF error.status = 401 \/ error.status = 403 THEN FALSE
    ELSE IF error.cls = "HTTPDNSError" /\ error.operation = "CONFIG_ERROR" THEN FALSE
    ELSE IF error.cls = "HTTPDNSError" /\ error.operation = "AUTH_ERROR" THEN FALSE
    ELSE TRUE

\* isNetworkError counting every error: the variant the health bookkeeping
\* of malformed responses is tried against
isNetworkErrorAny(error) == error.message # <<>>

\* NetworkManager.isNetworkError
isNetworkError(error) ==
    IF error.code # "" /\ error.code \in NETWORK_ERROR_CODES THEN TRUE
    ELSE IF error.status # 0 /\ (error.status >= 500 \/ error.status = 429 \/ error.status = 408)
         THEN TRUE
    ELSE FALSE

\* enhanceError handing the error back as it came: the variant the error
\* taxonomy is tried against
enhanceErrorAsIs(error, domain) == error

\* NetworkManager.enhanceError
enhanceError(error, domain) ==
    IF error.cls = "HTTPDNSError" THEN error
    ELSE IF error.status = 401 \/ error.status = 403 THEN createAuthFailedError(domain)
    ELSE createNetworkError(domain, error)

(***************************************************************************)
(* Inputs: the configuration, the domains callers pass, what the HTTP      *)
(* client can deliver                                                      *)
(***************************************************************************)
ServiceLists == {<<"s1", "s2">>}

D_A == <<"a", ".", "c", "n">>
D_B == <<"b", "-", "1", ".", "i", "o">>
D_BAD == <<"-", "a", ".", "c", "n">>
D_EMPTY == <<>>
D_IP == <<"1", ".", "2", ".", "3", ".", "4">>
ValidDomains == {D_A, D_B}
QueryTypeInputs == {Undefined, QT_IPv4, QT_IPv6}

V4List == <<"1.2.3.4", "5.6.7.8">>
V6List == <<"2001:db8::1">>
TtlChoices == {300}

E_RESET == RawError("ECONNRESET", 0, <<"read", "ECONNRESET">>)
E_TIMEOUT == RawError("ECONNABORTED", 0, <<"timeout", "of", "5000ms", "exceeded">>)
E_500 == RawError("ERR_BAD_RESPONSE", 500, <<"Request", "failed", "with", "status", "code", "500">>)
E_404 == RawError("ERR_BAD_REQUEST", 404, <<"Request", "failed", "with", "status", "code", "404">>)
E_401 == RawError("ERR_BAD_REQUEST", 401, <<"Request", "failed", "with", "status", "code", "401">>)
E_403 == RawError("ERR_BAD_REQUEST", 403, <<"Request", "failed", "with", "status", "code", "403">>)
E_TAGGED_AUTH == HTTPDNSError("AUTH_ERROR", D_A, RawError("", 0, <<"Invalid", "signature">>))
E_TAGGED_CONFIG == HTTPDNSError("CONFIG_ERROR", D_A, RawError("", 0, <<"Invalid", "config">>))

\* rejections of httpClient.get
HttpErrors == {E_RESET, E_TIMEOUT, E_500, E_404, E_401, E_403, E_TAGGED_AUTH, E_TAGGED_CONFIG}

\* the v4 / v6 member of one answer: absent, or [ips, ttl]
FamilyAnswers(list) ==
    {None, Some([ips |-> <<>>, ttl |-> 0])}
      \cup {Some([ips |-> list, ttl |-> ttl]) : ttl \in TtlChoices}

\* the answers the service can give for one name under a family selector
AnswersFor(name, queryType) ==
    {[dn |-> name, v4 |-> a4, v6 |-> a6] :
        a4 \in IF queryType = QT_IPv6 THEN {None} ELSE FamilyAnswers(V4List),
        a6 \in IF queryType = QT_IPv4 THEN {None} ELSE FamilyAnswers(V6List)}

\* the answer lists the service can give to a combined request: every name
\* answered (IPv4 always, IPv6 for all names or for none), or only the first
BatchAnswers(names) ==
    {[i \in 1..Len(names) |->
         [dn |-> names[i], v4 |-> Some([ips |-> V4List, ttl |-> ttl]), v6 |-> a6]] :
        ttl \in TtlChoices,
        a6 \in {None} \cup {Some([ips |-> V6List, ttl |-> t6]) : t6 \in TtlChoices}}
      \cup {<<[dn |-> names[1], v4 |-> Some([ips |-> V4List, ttl |-> ttl]), v6 |-> None]>> :
                ttl \in TtlChoices}

\* a fulfilled httpClient.get of the resolution endpoint: response.data
\* is not an object, or carries a code and the answers
HttpBodies(domain, queryType) ==
    {[isObject |-> FALSE, code |-> "", answers |-> <<>>],
     [isObject |-> TRUE, code |-> "InvalidHost", answers |-> <<>>],
     [isObject |-> TRUE, code |-> "success", answers |-> <<>>]}
      \cup {[isObject |-> TRUE, code |-> "success", answers |-> as] :
                as \in IF Len(Split(domain, ",")) = 1
                       THEN {<<a>> : a \in AnswersFor(domain, queryType)}
                       ELSE BatchAnswers(Split(domain, ","))}

(***************************************************************************)
(* NetworkManager                                                          *)
(***************************************************************************)
\* fetchServiceIPs without the test for a run in flight: the variant the
\* sharing of the run is tried against
fetchServiceIPsAlwaysStarts(fetch) ==
    [fetching |-> Some([idx |-> 1]), requests |-> 1]

\* fetchServiceIPs handing back whatever the marker holds and starting
\* nothing: the variant the fresh run after a settled one is tried against
fetchServiceIPsNeverStarts(fetch) ==
    [fetching |-> fetch, requests |-> 0]

\* NetworkManager.fetchServiceIPs up to its first request: a run in flight is
\* shared, otherwise a run starts with the first bootstrap address
fetchServiceIPs(fetch) ==
    IF fetch # None THEN [fetching |-> fetch, requests |-> 0]
    ELSE [fetching |-> Some([idx |-> 1]), requests |-> 1]

\* getAvailableServiceIP falling back to the first bootstrap address without
\* starting discovery: the variant the empty-pool property is tried against
NetGetAvailableServiceIPNoDiscovery(pool, fetch, t) ==
    LET r == getAvailableServiceIP(pool, t)
    IN  IF r.ip = Undefined
        THEN [ip |-> config.bootstrapIPs[1], pool |-> r.pool,
              fetching |-> fetch, requests |-> 0]
        ELSE [ip |-> r.ip, pool |-> r.pool, fetching |-> fetch, requests |-> 0]

\* NetworkManager.getAvailableServiceIP: an empty pool triggers discovery in
\* the background and the first bootstrap address is used
NetGetAvailableServiceIP(pool, fetch, t) ==
    LET r == getAvailableServiceIP(pool, t)
    IN  IF r.ip = Undefined
        THEN [ip |-> config.bootstrapIPs[1], pool |-> r.pool,
              fetching |-> fetchServiceIPs(fetch).fetching,
              requests |-> fetchServiceIPs(fetch).requests]
        ELSE [ip |-> r.ip, pool |-> r.pool, fetching |-> fetch, requests |-> 0]

\* the domain check at the head of NetworkManager.resolve
ResolveDomainsValid(domain) ==
    \A i \in 1..Len(Split(domain, ",")) : isValidDomain(Trim(Split(domain, ",")[i]))

\* NetworkManager.resolve from its call to its first suspension: either it
\* throws, or attempt 0 of executeWithRetry has its request in flight
NetResolveStart(kind, origin, domain, queryType, pool, fetch, t) ==
    IF ~ResolveDomainsValid(domain)
    THEN [thrown |-> Some(createNetworkError(domain,
                         RawError("", 0, <<"Invalid", "domain", "format">>))),
          task |-> None, pool |-> pool, fetching |-> fetch, requests |-> 0]
    ELSE LET a == NetGetAvailableServiceIP(pool, fetch, t)
         IN  [thrown |-> None,
              task |-> Some([kind |-> kind, origin |-> origin, domain |-> domain,
                             queryType |-> queryType, attempt |-> 0,
                             serviceIP |-> a.ip, sent |-> 1]),
              pool |-> a.pool, fetching |-> a.fetching, requests |-> a.requests + 1]

\* a loop bound one higher: the variant the number of attempts of a
\* blocking resolve is tried against
maxAttemptsOneMore == config.maxRetries + 2

\* the loop bound of executeWithRetry
maxAttempts == config.maxRetries + 1

\* the loop going round once too often: the variant the attempt count is
\* tried against
HasAttemptsLeftOffByOne(attempt) == attempt < maxAttempts

\* whether executeWithRetry goes round again after a retryable failure
HasAttemptsLeft(attempt) == attempt < maxAttempts - 1

\* the catch block of NetworkManager.executeWithRetry for the error of the
\* attempt in flight, and the next iteration when there is one
ExecuteCatch(task, error, pool, fetch, t) ==
    IF ~shouldRetry(error)
    THEN [status |-> "thrown", error |-> Some(enhanceError(error, task.domain)),
          lastError |-> Some(error), task |-> None, pool |-> pool,
          fetching |-> fetch, requests |-> 0]
    ELSE LET marked == IF isNetworkError(error) /\ pool.currentIP # Undefined
                       THEN markIPFailed(pool, pool.currentIP, t)
                       ELSE pool
             a == NetGetAvailableServiceIP(marked, fetch, t)
         IN  IF HasAttemptsLeft(task.attempt)
             THEN [status |-> "retry", error |-> None, lastError |-> Some(error),
                   task |-> Some([task EXCEPT !.attempt = task.attempt + 1,
                                              !.serviceIP = a.ip,
                                              !.sent = task.sent + 1]),
                   pool |-> a.pool, fetching |-> a.fetching,
                   requests |-> a.requests + 1]
             ELSE [status |-> "thrown", error |-> Some(enhanceError(error, task.domain)),
                   lastError |-> Some(error), task |-> None, pool |-> marked,
                   fetching |-> fetch, requests |-> 0]

\* the operation passed to executeWithRetry by NetworkManager.resolve, from
\* the settlement of httpClient.get on
ExecuteStep(task, outcome, pool, fetch, t) ==
    IF outcome.rejected
    THEN ExecuteCatch(task, outcome.error, pool, fetch, t)
    ELSE IF ~outcome.body.isObject
    THEN ExecuteCatch(task,
             createParseError(task.domain, RawError("", 0, <<"Invalid", "response", "format">>)),
             pool, fetch, t)
    ELSE IF outcome.body.code # "success"
    THEN ExecuteCatch(task,
             createNetworkError(task.domain,
                 RawError("", 0, <<"Resolve", "failed:", outcome.body.code>>)),
             pool, fetch, t)
    ELSE [status |-> "ok", error |-> None, lastError |-> None, task |-> None,
          pool |-> markIPSuccess(pool, task.serviceIP), fetching |-> fetch,
          requests |-> 0]

(***************************************************************************)
(* Resolver                                                                *)
(***************************************************************************)
\* one element of the array built by Resolver.convertToResolveResults
AnswerToResult(answer, t) ==
    [domain |-> answer.dn,
     ipv4 |-> IF answer.v4 = None THEN <<>> ELSE answer.v4[1].ips,
     ipv4Ttl |-> IF answer.v4 = None THEN 0 ELSE answer.v4[1].ttl,
     ipv4Timestamp |-> t,
     ipv6 |-> IF answer.v6 = None THEN <<>> ELSE answer.v6[1].ips,
     ipv6Ttl |-> IF answer.v6 = None THEN 0 ELSE answer.v6[1].ttl,
     ipv6Timestamp |-> t]

\* Resolver.convertToResolveResults
convertToResolveResults(body, t) ==
    IF Len(body.answers) = 0
    THEN [thrown |-> Some(RawError("", 0, <<"Invalid", "response", "format:", "missing", "answers">>)),
          results |-> <<>>]
    ELSE [thrown |-> None,
          results |-> [i \in 1..Len(body.answers) |-> AnswerToResult(body.answers[i], t)]]

\* the object built in the catch block of getHttpDnsResultForHostSync
FailedResult(domain, t) ==
    [domain |-> domain, ipv4 |-> <<>>, ipv4Ttl |-> 0, ipv4Timestamp |-> t,
     ipv6 |-> <<>>, ipv6Ttl |-> 0, ipv6Timestamp |-> t]

\* the store step without the enableCache test: the variant the disabled
\* cache is tried against
SyncStoreAlways(c, domain, queryType, result, t) ==
    IF result.ipv4Ttl > 0 \/ result.ipv6Ttl > 0
    THEN CacheSet(c, domain, queryType, result, t)
    ELSE c

\* the store step putting whatever record came back into the map: the
\* variant the positive-TTL property of the entries is tried against
SyncStoreUnconditional(c, domain, queryType, result, t) ==
    IF config.enableCache THEN MapPut(c, domain, CacheEntry(result, t)) ELSE c

\* the store step of getHttpDnsResultForHostSync
SyncStore(c, domain, queryType, result, t) ==
    IF config.enableCache /\ (result.ipv4Ttl > 0 \/ result.ipv6Ttl > 0)
    THEN CacheSet(c, domain, queryType, result, t)
    ELSE c

\* the store loop of _resolveAsync
RECURSIVE AsyncStore(_, _, _, _)
AsyncStore(c, queryType, results, t) ==
    IF results = <<>> THEN c
    ELSE LET result == Head(results)
             c1 == IF config.enableCache /\ (result.ipv4Ttl > 0 \/ result.ipv6Ttl > 0)
                   THEN CacheSet(c, result.domain, queryType, result, t)
                   ELSE c
         IN  AsyncStore(c1, queryType, Tail(results), t)

\* what a call starts when it starts nothing
NothingStarted ==
    [thrown |-> None, task |-> None, pool |-> Pool, fetching |-> fetching, requests |-> 0]

\* the cache check shared by the two lookups; with caching off the cache is
\* not consulted
CacheCheck(domain, queryType) ==
    IF config.enableCache
    THEN CacheGet(cache, domain, queryType, config.enableExpiredIP, now)
    ELSE [entry |-> None, cache |-> cache]

\* the part of getHttpDnsResultForHostSync (blocking) and of
\* getHttpDnsResultForHostSyncNonBlocking that runs before the caller gets
\* control back: what it starts, returns and leaves in the cache
ResolverCall(blocking, domain, queryTypeInput) ==
    LET invalid == validateSingleResolveParams(domain)
        queryType == parseQueryType(queryTypeInput)
        g == CacheCheck(domain, queryType)
        hit == g.entry # None
        stale == hit /\ isExpired(g.entry[1], queryType, now)
        started ==
            IF hit
            THEN IF stale
                 THEN NetResolveStart("async", "stale", domain,
                          parseQueryType(getExpiredTypes(g.entry[1], now)),
                          Pool, fetching, now)
                 ELSE NothingStarted
            ELSE NetResolveStart(IF blocking THEN "sync" ELSE "async", "miss", domain,
                     parseQueryType(queryTypeInput), Pool, fetching, now)
    IN  IF invalid # None
        THEN [outcome |-> "throw", queryType |-> queryType, stale |-> FALSE,
              ret |-> None, error |-> invalid, cache |-> cache, started |-> NothingStarted]
        ELSE IF hit
        THEN [outcome |-> "hit", queryType |-> queryType, stale |-> stale,
              ret |-> Some(toResolveResult(g.entry[1], queryType)), error |-> None,
              cache |-> g.cache, started |-> started]
        ELSE [outcome |-> "miss", queryType |-> queryType, stale |-> FALSE,
              ret |-> IF blocking /\ started.thrown # None
                      THEN Some(FailedResult(domain, now)) ELSE None,
              error |-> None, cache |-> g.cache, started |-> started]

\* the members of a sequence as a bag
SeqToBag(seq) ==
    [x \in {seq[i] : i \in 1..Len(seq)} |->
        Cardinality({i \in 1..Len(seq) : seq[i] = x})]

AddTask(bag, optTask) ==
    IF optTask = None THEN bag ELSE bag (+) SetToBag({optTask[1]})

Entry(c, domain) == IF domain \in DOMAIN c THEN Some(c[domain]) ELSE None

\* a lookup that got past the closed guard of the client, the maxCalls-th
\* call at most
CallStepUpTo(blocking, domain, queryTypeInput, maxCalls) ==
    LET r == ResolverCall(blocking, domain, queryTypeInput)
    IN  /\ ~client.closed
        /\ calls < maxCalls
        /\ BagCardinality(AddTask(tasks, r.started.task)) <= MaxTasks
        /\ calls' = calls + 1
        /\ cache' = r.cache
        /\ serviceIPs' = r.started.pool.serviceIPs
        /\ currentIP' = r.started.pool.currentIP
        /\ failedIPs' = r.started.pool.failedIPs
        /\ fetching' = r.started.fetching
        /\ tasks' = AddTask(tasks, r.started.task)
        /\ last' = [ev |-> IF blocking THEN "sync" ELSE "nonblocking",
                    domain |-> domain, queryType |-> r.queryType,
                    pre |-> Entry(cache, domain), outcome |-> r.outcome,
                    stale |-> r.stale, ret |-> r.ret, error |-> r.error,
                    started |-> r.started.task, requests |-> r.started.requests]
        /\ UNCHANGED <<config, now, client>>

\* a lookup that got past the closed guard of the client
CallStep(blocking, domain, queryTypeInput) ==
    CallStepUpTo(blocking, domain, queryTypeInput, MaxCalls)

\* Resolver.getHttpDnsResultForHostSync, up to its first suspension
GetHttpDnsResultForHostSync(domains, queryTypes) ==
    \E domain \in domains, q \in queryTypes : CallStep(TRUE, domain, q)

\* Resolver.getHttpDnsResultForHostSyncNonBlocking
GetHttpDnsResultForHostSyncNonBlocking(domains, queryTypes) ==
    \E domain \in domains, q \in queryTypes : CallStep(FALSE, domain, q)

\* the loop body without the test for IP addresses: the variant the filter
\* property is tried against
FilterOneKeepsIP(c, domain, t) ==
    LET skip == ~isValidDomain(domain)
        g == CacheGet(c, domain, QT_Both, FALSE, t)
        fresh == g.entry # None /\ ~isExpired(g.entry[1], QT_Both, t)
    IN  [valid |-> IF skip \/ fresh THEN <<>> ELSE <<domain>>,
         cache |-> IF skip THEN c ELSE g.cache]

\* one turn of the loop of filterDomainsForPreResolve: the domain kept or
\* not, and the cache after the lookup made for it
FilterOne(c, domain, t) ==
    LET skip == ~isValidDomain(domain) \/ isIPAddress(domain)
        g == CacheGet(c, domain, QT_Both, FALSE, t)
        fresh == g.entry # None /\ ~isExpired(g.entry[1], QT_Both, t)
    IN  [valid |-> IF skip \/ fresh THEN <<>> ELSE <<domain>>,
         cache |-> IF skip THEN c ELSE g.cache]

\* Resolver.filterDomainsForPreResolve: the domains kept, and the cache after
\* the lookups it makes.  The loop runs front to back; it is unfolded by
\* halves, the first half before the second.
RECURSIVE filterDomainsForPreResolve(_, _, _)
filterDomainsForPreResolve(c, domains, t) ==
    IF domains = <<>> THEN [valid |-> <<>>, cache |-> c]
    ELSE IF Len(domains) = 1 THEN FilterOne(c, domains[1], t)
    ELSE LET half == Len(domains) \div 2
             front == filterDomainsForPreResolve(c, SubSeq(domains, 1, half), t)
             back == filterDomainsForPreResolve(front.cache,
                         SubSeq(domains, half + 1, Len(domains)), t)
         IN  [valid |-> front.valid \o back.valid, cache |-> back.cache]

\* setPreResolveHosts without the batching loop, every domain in one
\* request: the variant the batch sizes are tried against
BatchesInOne(validDomains) ==
    IF validDomains = <<>> THEN <<>> ELSE <<validDomains>>

\* the batching loop of setPreResolveHosts
RECURSIVE Batches(_)
Batches(validDomains) ==
    IF validDomains = <<>> THEN <<>>
    ELSE IF Len(validDomains) <= BATCH_SIZE THEN <<validDomains>>
    ELSE <<SubSeq(validDomains, 1, BATCH_SIZE)>>
           \o Batches(SubSeq(validDomains, BATCH_SIZE + 1, Len(validDomains)))

\* batches.map(batch => this._resolveAsync(batch.join(','), Both)): each
\* batch in turn up to its request
RECURSIVE StartBatches(_, _, _, _)
StartBatches(batches, pool, fetch, t) ==
    IF batches = <<>>
    THEN [tasks |-> <<>>, pool |-> pool, fetching |-> fetch, requests |-> 0]
    ELSE LET s == NetResolveStart("async", "preresolve", Join(Head(batches), ","),
                                  QT_Both, pool, fetch, t)
             rest == StartBatches(Tail(batches), s.pool, s.fetching, t)
         IN  [tasks |-> s.task \o rest.tasks, pool |-> rest.pool,
              fetching |-> rest.fetching, requests |-> s.requests + rest.requests]

\* setPreResolveHosts from the batches on: s is what starting them gave
PreResolveStarted(domains, f, s, maxTasks) ==
    /\ ~client.closed
    /\ calls < MaxCalls
    /\ BagCardinality(tasks (+) SeqToBag(s.tasks)) <= maxTasks
    /\ calls' = calls + 1
    /\ cache' = f.cache
    /\ serviceIPs' = s.pool.serviceIPs
    /\ currentIP' = s.pool.currentIP
    /\ failedIPs' = s.pool.failedIPs
    /\ fetching' = s.fetching
    /\ tasks' = tasks (+) SeqToBag(s.tasks)
    /\ last' = [ev |-> "preresolve", domains |-> domains,
                warned |-> Len(domains) > MAX_PRERESOLVE_HOSTS,
                warnings |-> IF Len(domains) > MAX_PRERESOLVE_HOSTS
                                /\ config.logger THEN 1 ELSE 0,
                valid |-> f.valid, started |-> s.tasks, requests |-> s.requests,
                cacheBefore |-> cache]
    /\ UNCHANGED <<config, now, client>>

\* setPreResolveHosts from the filter on: f is what the filter gave
PreResolveFiltered(domains, f, maxTasks) ==
    PreResolveStarted(domains, f,
                      StartBatches(Batches(f.valid), Pool, fetching, now), maxTasks)

\* Resolver.setPreResolveHosts, past the closed guard of the client, with at
\* most maxTasks resolutions in flight afterwards
SetPreResolveHostsUpTo(domainLists, maxTasks) ==
    \E domains \in domainLists :
        PreResolveFiltered(domains,
            IF Len(domains) = 0 \/ Len(domains) > MAX_PRERESOLVE_HOSTS
            THEN [valid |-> <<>>, cache |-> cache]
            ELSE filterDomainsForPreResolve(cache, domains, now),
            maxTasks)

\* Resolver.setPreResolveHosts
SetPreResolveHosts(domainLists) == SetPreResolveHostsUpTo(domainLists, MaxTasks)

NoError == RawError("", 0, <<>>)
NoBody == [isObject |-> FALSE, code |-> "", answers |-> <<>>]

\* how the request of a resolution in flight can settle
HttpOutcomes(task, errors) ==
    {[rejected |-> TRUE, error |-> e, body |-> NoBody] : e \in errors}
      \cup {[rejected |-> FALSE, error |-> NoError, body |-> b] :
                b \in HttpBodies(task.domain, task.queryType)}

\* the continuation with a failed background resolution dropping the entry
\* of its domain: the variant the background-failure property is tried against
ResolverFinishDropsEntry(task, x, outcome) ==
    LET conv == IF x.status = "ok" THEN convertToResolveResults(outcome.body, now)
                ELSE [thrown |-> x.error, results |-> <<>>]
        ok == conv.thrown = None
    IN  IF task.kind = "sync"
        THEN [ok |-> ok, error |-> conv.thrown, settled |-> "fulfilled",
              results |-> conv.results,
              ret |-> IF ok THEN Some(conv.results[1])
                      ELSE Some(FailedResult(task.domain, now)),
              cache |-> IF ok THEN SyncStore(cache, task.domain, task.queryType,
                                             conv.results[1], now)
                        ELSE cache]
        ELSE [ok |-> ok, error |-> conv.thrown, settled |-> "fulfilled",
              results |-> conv.results,
              ret |-> None,
              cache |-> IF ok THEN AsyncStore(cache, task.queryType, conv.results, now)
                        ELSE MapDelete(cache, task.domain)]

\* the rest of a resolution after executeWithRetry has finished: the
\* continuation of getHttpDnsResultForHostSync or of _resolveAsync
ResolverFinish(task, x, outcome) ==
    LET conv == IF x.status = "ok" THEN convertToResolveResults(outcome.body, now)
                ELSE [thrown |-> x.error, results |-> <<>>]
        ok == conv.thrown = None
    IN  IF task.kind = "sync"
        THEN [ok |-> ok, error |-> conv.thrown, settled |-> "fulfilled",
              results |-> conv.results,
              ret |-> IF ok THEN Some(conv.results[1])
                      ELSE Some(FailedResult(task.domain, now)),
              cache |-> IF ok THEN SyncStore(cache, task.domain, task.queryType,
                                             conv.results[1], now)
                        ELSE cache]
        ELSE [ok |-> ok, error |-> conv.thrown, settled |-> "fulfilled",
              results |-> conv.results,
              ret |-> None,
              cache |-> IF ok THEN AsyncStore(cache, task.queryType, conv.results, now)
                        ELSE cache]

\* the request of a resolution settles: executeWithRetry either sends the
\* next attempt or finishes, and then the resolver's continuation runs
HttpReply(errors) ==
    \E task \in BagToSet(tasks) : \E outcome \in HttpOutcomes(task, errors) :
        LET x == ExecuteStep(task, outcome, Pool, fetching, now)
            rest == tasks (-) SetToBag({task})
            f == ResolverFinish(task, x, outcome)
        IN  /\ serviceIPs' = x.pool.serviceIPs
            /\ currentIP' = x.pool.currentIP
            /\ failedIPs' = x.pool.failedIPs
            /\ fetching' = x.fetching
            /\ IF x.status = "retry"
               THEN /\ tasks' = AddTask(rest, x.task)
                    /\ cache' = cache
                    /\ last' = [ev |-> "retry", task |-> task, lastError |-> x.lastError,
                                next |-> x.task[1], requests |-> x.requests,
                                failedBefore |-> failedIPs]
               ELSE /\ tasks' = rest
                    /\ cache' = f.cache
                    /\ last' = [ev |-> "done", task |-> task, lastError |-> x.lastError,
                                ok |-> f.ok, ret |-> f.ret, error |-> f.error,
                                results |-> f.results,
                                settled |-> f.settled, cacheBefore |-> cache,
                                failedBefore |-> failedIPs]
            /\ UNCHANGED <<config, now, calls, client>>

\* how a discovery request can settle: an error, or a service_ip list
DiscoveryOutcomes ==
    {[rejected |-> TRUE, service_ip |-> <<>>], [rejected |-> FALSE, service_ip |-> <<>>]}
      \cup {[rejected |-> FALSE, service_ip |-> l] : l \in ServiceLists}

\* the address request number idx of a discovery run goes to: the bootstrap
\* addresses in turn, then the bootstrap domain
DiscoveryTarget(idx) ==
    IF idx <= Len(config.bootstrapIPs) THEN config.bootstrapIPs[idx]
    ELSE DEFAULT_BOOTSTRAP_DOMAIN

\* a discovery run that gives up after the last bootstrap address, never
\* asking the bootstrap domain: the variant the fallback order is tried against
DiscoveryMoreWithoutDomain(idx) == idx < Len(config.bootstrapIPs)

\* whether the discovery run has a request left after request number idx
\* (the for loop over bootstrapIPs, then the one try of the bootstrap domain)
DiscoveryMore(idx) == idx <= Len(config.bootstrapIPs)

\* the test on a discovery response taking any list the service sends, an
\* empty one included: the variant the non-empty list is tried against
hasServiceIPsAnyList(outcome) == ~outcome.rejected

\* the test fetchServiceIPs puts on a discovery response before installing
\* its list: response.data.service_ip is there and not empty
hasServiceIPs(outcome) == ~outcome.rejected /\ Len(outcome.service_ip) > 0

\* the request of the discovery run in flight settles (the body of
\* fetchServiceIPs): install the list, or go on to the next bootstrap
\* address, then to the bootstrap domain, then fail
DiscoveryReply ==
    /\ fetching # None
    /\ \E outcome \in DiscoveryOutcomes :
        LET idx == fetching[1].idx
            got == hasServiceIPs(outcome)
            pool == IF got THEN updateServiceIPs(Pool, outcome.service_ip) ELSE Pool
            more == DiscoveryMore(idx)
        IN  /\ serviceIPs' = pool.serviceIPs
            /\ currentIP' = pool.currentIP
            /\ failedIPs' = pool.failedIPs
            /\ fetching' = IF got \/ ~more THEN None ELSE Some([idx |-> idx + 1])
            /\ client' = [client EXCEPT !.waiting = IF got \/ ~more THEN 0 ELSE @]
            /\ last' = [ev |-> "discovery", idx |-> idx, got |-> got,
                        target |-> DiscoveryTarget(idx),
                        rejected |-> outcome.rejected,
                        service_ip |-> outcome.service_ip,
                        waiting |-> client.waiting,
                        settled |-> IF got THEN "fulfilled"
                                    ELSE IF more THEN "pending" ELSE "rejected",
                        error |-> IF got \/ more THEN None
                                  ELSE Some(createNetworkError(<<>>,
                                            RawError("", 0, <<"Service", "unavailable">>))),
                        listBefore |-> serviceIPs]
    /\ UNCHANGED <<config, now, cache, tasks, calls>>

\* time passes: by a millisecond, or by five minutes (the TTL the service
\* hands out, and within a millisecond of the endpoint cooldown)
LongTick == 300 * MS_PER_SECOND

Tick ==
    \E d \in {1, LongTick} :
        /\ d = 1 => now % LongTick < MaxShortTicks
        /\ d = LongTick => now \div LongTick < MaxLongTicks
        /\ now' = now + d
        /\ last' = [ev |-> "tick"]
        /\ UNCHANGED <<config, cache, serviceIPs, currentIP, failedIPs, fetching,
                       tasks, calls, client>>

\* the public methods of ServiceIPManager called directly
SetPool(pool) ==
    /\ serviceIPs' = pool.serviceIPs
    /\ currentIP' = pool.currentIP
    /\ failedIPs' = pool.failedIPs
    /\ UNCHANGED <<config, now, cache, fetching, tasks, calls, client>>

\* ServiceIPManager.updateServiceIPs(ips)
PoolUpdate(lists) ==
    \E ips \in lists :
        /\ SetPool(updateServiceIPs(Pool, ips))
        /\ last' = [ev |-> "poolUpdate", ips |-> ips, before |-> Pool]

\* ServiceIPManager.getAvailableServiceIP()
PoolAcquire ==
    /\ SetPool(getAvailableServiceIP(Pool, now).pool)
    /\ last' = [ev |-> "acquire", ret |-> getAvailableServiceIP(Pool, now).ip,
                before |-> Pool]

\* ServiceIPManager.markIPFailed(ip)
PoolMarkFailed(ips) ==
    \E ip \in ips :
        /\ SetPool(markIPFailed(Pool, ip, now))
        /\ last' = [ev |-> "markFailed", ip |-> ip, before |-> Pool]

\* ServiceIPManager.markIPSuccess(ip)
PoolMarkSuccess(ips) ==
    \E ip \in ips :
        /\ SetPool(markIPSuccess(Pool, ip))
        /\ last' = [ev |-> "markSuccess", ip |-> ip, before |-> Pool]

(***************************************************************************)
(* HTTPDNSClientImpl: the closed guards in front of the resolver, close,   *)
(* the manual and the periodic endpoint refresh.                           *)
(***************************************************************************)
\* the period of the setInterval of startPeriodicUpdate
UPDATE_INTERVAL_MS == 8 * 60 * 60 * 1000

\* new HTTPDNSError(ErrorTypes.CONFIG_ERROR, domain, new Error('Client has
\* been stopped'))
ClientStopped(domain) ==
    HTTPDNSError("CONFIG_ERROR", domain,
                 RawError("", 0, <<"Client", "has", "been", "stopped">>))

\* a client operation that returns (or throws) without touching anything
ClientReturns(l) ==
    /\ last' = l
    /\ UNCHANGED <<config, now, cache, serviceIPs, currentIP, failedIPs, fetching,
                   tasks, calls, client>>

\* HTTPDNSClientImpl.getHttpDnsResultForHostSync
ClientGetHttpDnsResultForHostSync(domains, queryTypes) ==
    \/ /\ client.closed
       /\ \E domain \in domains :
            ClientReturns([ev |-> "sync", domain |-> domain, outcome |-> "closed",
                           ret |-> None, thrown |-> Some(ClientStopped(domain)),
                           started |-> None, requests |-> 0])
    \/ GetHttpDnsResultForHostSync(domains, queryTypes)

\* HTTPDNSClientImpl.getHttpDnsResultForHostSyncNonBlocking
ClientGetHttpDnsResultForHostSyncNonBlocking(domains, queryTypes) ==
    \/ /\ client.closed
       /\ \E domain \in domains :
            ClientReturns([ev |-> "nonblocking", domain |-> domain,
                           outcome |-> "closed", ret |-> None, thrown |-> None,
                           started |-> None, requests |-> 0])
    \/ GetHttpDnsResultForHostSyncNonBlocking(domains, queryTypes)

\* HTTPDNSClientImpl.setPreResolveHosts
ClientSetPreResolveHosts(domainLists) ==
    \/ /\ client.closed
       /\ \E domains \in domainLists :
            ClientReturns([ev |-> "preresolve", domains |-> domains,
                           outcome |-> "closed", started |-> <<>>, requests |-> 0])
    \/ SetPreResolveHosts(domainLists)

\* the call of fetchServiceIPs by a caller that awaits the run: a run in
\* flight is joined, otherwise one starts
JoinDiscovery(ev) ==
    /\ fetching' = fetchServiceIPs(fetching).fetching
    /\ client' = [client EXCEPT !.waiting = @ + 1]
    /\ last' = [ev |-> ev, outcome |-> "awaiting", thrown |-> None,
                joined |-> fetching # None,
                requests |-> fetchServiceIPs(fetching).requests]

\* HTTPDNSClientImpl.updateServiceIPs, up to its await
ClientUpdateServiceIPs ==
    \/ /\ client.closed
       /\ ClientReturns([ev |-> "update", outcome |-> "closed",
                         thrown |-> Some(ClientStopped(<<>>)), joined |-> FALSE,
                         requests |-> 0])
    \/ /\ ~client.closed
       /\ calls < MaxCalls
       /\ calls' = calls + 1
       /\ JoinDiscovery("update")
       /\ UNCHANGED <<config, now, cache, serviceIPs, currentIP, failedIPs, tasks>>

\* the callback of the setInterval of startPeriodicUpdate, run when the
\* clock reaches the next multiple of eight hours (close clears the timer in
\* the step that sets closed, so the callback never finds the client closed)
PeriodicUpdate ==
    /\ client.updateTimer
    /\ now \div UPDATE_INTERVAL_MS < MaxTimerFires
    /\ now' = (now \div UPDATE_INTERVAL_MS + 1) * UPDATE_INTERVAL_MS
    /\ ~client.closed
    /\ JoinDiscovery("timer")
    /\ UNCHANGED <<config, cache, serviceIPs, currentIP, failedIPs, tasks, calls>>

\* HTTPDNSClientImpl.close, with Resolver.close and CacheManager.clear
Close ==
    \/ /\ client.closed
       /\ ClientReturns([ev |-> "close", wasClosed |-> TRUE, cacheBefore |-> cache])
    \/ /\ ~client.closed
       /\ client' = [client EXCEPT !.closed = TRUE, !.updateTimer = FALSE]
       /\ cache' = EmptyMap
       /\ last' = [ev |-> "close", wasClosed |-> FALSE, cacheBefore |-> cache]
       /\ UNCHANGED <<config, now, serviceIPs, currentIP, failedIPs, fetching,
                      tasks, calls>>

\* getServiceIPs without the closed guard: the variant the inertness after
\* close is tried against
ClientGetServiceIPsIgnoresClosed ==
    ClientReturns([ev |-> "getServiceIPs", ret |-> serviceIPs])

\* HTTPDNSClientImpl.getServiceIPs
ClientGetServiceIPs ==
    ClientReturns([ev |-> "getServiceIPs",
                   ret |-> IF client.closed THEN <<>> ELSE serviceIPs])

\* HTTPDNSClientImpl.isHealthy
ClientIsHealthy ==
    ClientReturns([ev |-> "isHealthy",
                   ret |-> IF client.closed THEN FALSE
                           ELSE IF Len(serviceIPs) = 0 THEN FALSE ELSE TRUE])

\* the state the constructor of HTTPDNSClientImpl leaves: the first discovery
\* run has its request at the first bootstrap address in flight, awaited by
\* the constructor's own call, and the periodic timer is set
InitClient(configs) ==
    /\ config \in configs
    /\ now = 0
    /\ cache = EmptyMap
    /\ serviceIPs = <<>>
    /\ currentIP = Undefined
    /\ failedIPs = EmptyMap
    /\ fetching = fetchServiceIPs(None).fetching
    /\ tasks = EmptyBag
    /\ calls = 0
    /\ last = [ev |-> "init"]
    /\ client = [closed |-> FALSE, updateTimer |-> TRUE, waiting |-> 1]

InitWith(configs) ==
    /\ config \in configs
    /\ now = 0
    /\ cache = EmptyMap
    /\ serviceIPs = <<>>
    /\ currentIP = Undefined
    /\ failedIPs = EmptyMap
    /\ fetching = None
    /\ tasks = EmptyBag
    /\ calls = 0
    /\ last = [ev |-> "init"]
    /\ client = [closed |-> FALSE, updateTimer |-> FALSE, waiting |-> 0]

(***************************************************************************)
(* SpecFlow: the lookups against the cache.  Caching is on, both stale     *)
(* policies; request failures are ones that do not count against an        *)
(* endpoint.                                                               *)
(***************************************************************************)
FlowConfigs ==
    [enableCache : {TRUE}, enableExpiredIP : BOOLEAN, maxRetries : {0},
     bootstrapIPs : {<<"b1">>}, logger : {TRUE}]
FlowDomains == {D_A, D_BAD, D_EMPTY}
FlowErrors == {E_404, E_401}

InitFlow == InitWith(FlowConfigs)

NextFlow ==
    \/ GetHttpDnsResultForHostSync(FlowDomains, QueryTypeInputs)
    \/ GetHttpDnsResultForHostSyncNonBlocking(FlowDomains, QueryTypeInputs)
    \/ HttpReply(FlowErrors)
    \/ DiscoveryReply
    \/ Tick

SpecFlow == InitFlow /\ [][NextFlow]_vars

(***************************************************************************)
(* SpecNet: the retry loop and the endpoint pool.  Caching is off, every   *)
(* retry budget, every kind of request failure.                            *)
(***************************************************************************)
NetConfigs ==
    [enableCache : {FALSE}, enableExpiredIP : {FALSE}, maxRetries : 0..MaxRetriesBound,
     bootstrapIPs : {<<"b1", "b2">>}, logger : {TRUE}]
NetDomains == {D_A}
NetQueryTypes == {QT_IPv4}

InitNet == InitWith(NetConfigs)

NextNet ==
    \/ GetHttpDnsResultForHostSync(NetDomains, NetQueryTypes)
    \/ HttpReply(HttpErrors)
    \/ DiscoveryReply
    \/ Tick

SpecNet == InitNet /\ [][NextNet]_vars

(***************************************************************************)
(* SpecRetry: blocking resolves through the retry loop, a request failing  *)
(* with a connection reset, a timeout or a 401.  SpecRetryFair adds that   *)
(* every HTTP request of a resolution eventually completes or times out    *)
(* (the timeout of the HTTP client); nothing is assumed of the discovery   *)
(* requests, which may stay unanswered for ever.                           *)
(***************************************************************************)
RetryErrors == {E_RESET, E_TIMEOUT, E_401}

NextRetry ==
    \/ GetHttpDnsResultForHostSync(NetDomains, NetQueryTypes)
    \/ HttpReply(RetryErrors)
    \/ DiscoveryReply

SpecRetry == InitNet /\ [][NextRetry]_vars

SpecRetryFair == SpecRetry /\ WF_vars(HttpReply(RetryErrors))

(***************************************************************************)
(* SpecSync: blocking resolves with the default selector only.             *)
(***************************************************************************)
DefaultQueryTypes == {Undefined}

NextSync ==
    \/ GetHttpDnsResultForHostSync({D_A}, DefaultQueryTypes)
    \/ HttpReply(FlowErrors)
    \/ DiscoveryReply
    \/ Tick

SpecSync == InitFlow /\ [][NextSync]_vars

(***************************************************************************)
(* SpecAsync: non-blocking lookups with the default selector only.         *)
(***************************************************************************)
NextAsync ==
    \/ GetHttpDnsResultForHostSyncNonBlocking({D_A}, DefaultQueryTypes)
    \/ HttpReply(FlowErrors)
    \/ DiscoveryReply
    \/ Tick

SpecAsync == InitFlow /\ [][NextAsync]_vars

(***************************************************************************)
(* SpecPre: pre-resolve batches beside lookups with the default selector,   *)
(* stale-serving on.                                                       *)
(***************************************************************************)
PreConfigs ==
    [enableCache : {TRUE}, enableExpiredIP : {TRUE}, maxRetries : {0},
     bootstrapIPs : {<<"b1">>}, logger : {TRUE}]

InitPre == InitWith(PreConfigs)

PreLists ==
    {<<>>,
     <<D_A, D_BAD, D_IP>>,
     <<D_A, D_B>>,
     [i \in 1..(MAX_PRERESOLVE_HOSTS + 1) |-> D_A]}

NextPre ==
    \/ SetPreResolveHosts(PreLists)
    \/ GetHttpDnsResultForHostSync({D_A}, DefaultQueryTypes)
    \/ GetHttpDnsResultForHostSyncNonBlocking({D_A}, DefaultQueryTypes)
    \/ HttpReply(FlowErrors)
    \/ DiscoveryReply
    \/ Tick

SpecPre == InitPre /\ [][NextPre]_vars

(***************************************************************************)
(* SpecBatch: pre-resolve lists of up to 101 names against an empty cache, *)
(* with and without a logger; the requests stay in flight.                 *)
(***************************************************************************)
DigitChars == <<"0", "1", "2", "3", "4", "5", "6", "7", "8", "9">>

\* distinct valid names: d001.cn, d002.cn, ...
Host(i) ==
    <<"d", DigitChars[((i \div 100) % 10) + 1], DigitChars[((i \div 10) % 10) + 1],
      DigitChars[(i % 10) + 1], ".", "c", "n">>

Hosts(n) == [i \in 1..n |-> Host(i)]

BatchConfigs ==
    [enableCache : {TRUE}, enableExpiredIP : {FALSE}, maxRetries : {0},
     bootstrapIPs : {<<"b1">>}, logger : BOOLEAN]

BatchLists ==
    {Hosts(n) : n \in {0, 1, BATCH_SIZE, BATCH_SIZE + 1, MAX_PRERESOLVE_HOSTS - 1,
                       MAX_PRERESOLVE_HOSTS, MAX_PRERESOLVE_HOSTS + 1}}
      \cup {<<Host(1), D_BAD, Host(2), D_IP, Host(3), Host(4), Host(5), Host(6)>>}

\* room for every batch of every call
MaxBatchTasks == MaxCalls * (MAX_PRERESOLVE_HOSTS \div BATCH_SIZE)

NextBatch ==
    \/ SetPreResolveHostsUpTo(BatchLists, MaxBatchTasks)
    \/ DiscoveryReply

SpecBatch == InitWith(BatchConfigs) /\ [][NextBatch]_vars

(***************************************************************************)
(* SpecNoCache: lookups and pre-resolve with caching switched off.         *)
(***************************************************************************)
NoCacheConfigs ==
    [enableCache : {FALSE}, enableExpiredIP : BOOLEAN, maxRetries : {0},
     bootstrapIPs : {<<"b1">>}, logger : {TRUE}]

NoCacheDomains == {D_A, D_BAD}

NextNoCache ==
    \/ GetHttpDnsResultForHostSync(NoCacheDomains, DefaultQueryTypes)
    \/ GetHttpDnsResultForHostSyncNonBlocking(NoCacheDomains, DefaultQueryTypes)
    \/ SetPreResolveHosts({<<D_A, D_B>>})
    \/ HttpReply(FlowErrors)
    \/ DiscoveryReply
    \/ Tick

SpecNoCache == InitWith(NoCacheConfigs) /\ [][NextNoCache]_vars

(***************************************************************************)
(* SpecStale: three blocking lookups of one domain in a row, stale-serving *)
(* on: store, stale read with its refresh, read again.                     *)
(***************************************************************************)
NextStale ==
    \/ CallStepUpTo(TRUE, D_A, Undefined, MaxStaleCalls)
    \/ HttpReply({})
    \/ DiscoveryReply
    \/ Tick

SpecStale == InitPre /\ [][NextStale]_vars

(***************************************************************************)
(* SpecCache: the cache manager on its own, records put into it directly.  *)
(***************************************************************************)
\* the records put: each family unanswered (TTL 0), or answered with one of
\* two address lists and TTLs
CacheRecords(domain, t) ==
    {[domain |-> domain,
      ipv4 |-> v4.ips, ipv4Ttl |-> v4.ttl, ipv4Timestamp |-> t,
      ipv6 |-> v6.ips, ipv6Ttl |-> v6.ttl, ipv6Timestamp |-> t] :
        v4 \in {[ips |-> <<>>, ttl |-> 0], [ips |-> V4List, ttl |-> 300],
                [ips |-> <<"9.9.9.9">>, ttl |-> 60]},
        v6 \in {[ips |-> <<>>, ttl |-> 0], [ips |-> V6List, ttl |-> 300]}}

\* CacheManager.set(domain, queryType, result)
CacheManagerSet(domains) ==
    \E domain \in domains, queryType \in {QT_IPv4, QT_IPv6, QT_Both} :
        \E result \in CacheRecords(domain, now) :
            /\ cache' = CacheSet(cache, domain, queryType, result, now)
            /\ last' = [ev |-> "set", domain |-> domain, queryType |-> queryType,
                        result |-> result, cacheBefore |-> cache]
            /\ UNCHANGED <<config, now, serviceIPs, currentIP, failedIPs, fetching,
                           tasks, calls, client>>

\* the answers the response type allows for one name: each family absent,
\* or an address list and a TTL, each of them whatever the service sends
TypedAnswers(name) ==
    {[dn |-> name, v4 |-> a4, v6 |-> a6] :
        a4 \in {None, Some([ips |-> <<>>, ttl |-> 0]), Some([ips |-> V4List, ttl |-> 0]),
                Some([ips |-> V4List, ttl |-> 300])},
        a6 \in {None, Some([ips |-> V6List, ttl |-> 300])}}

\* a response goes through convertToResolveResults and the store loop of
\* _resolveAsync
StoreAnswer(domains) ==
    \E domain \in domains, queryType \in {QT_IPv4, QT_IPv6, QT_Both} :
        \E answer \in TypedAnswers(domain) :
            LET conv == convertToResolveResults(
                            [isObject |-> TRUE, code |-> "success",
                             answers |-> <<answer>>], now)
            IN  /\ cache' = AsyncStore(cache, queryType, conv.results, now)
                /\ last' = [ev |-> "stored", queryType |-> queryType,
                            results |-> conv.results, cacheBefore |-> cache]
                /\ UNCHANGED <<config, now, serviceIPs, currentIP, failedIPs,
                               fetching, tasks, calls, client>>

NextCache ==
    \/ CacheManagerSet({D_A})
    \/ StoreAnswer({D_A})
    \/ Tick

SpecCache == InitPre /\ [][NextCache]_vars

(***************************************************************************)
(* SpecPool: the endpoint pool on its own, its methods called in any order *)
(* as time passes.                                                         *)
(***************************************************************************)
ABC == <<"A", "B", "C">>
PoolLists == {<<>>, ABC, <<"C", "A">>}
PoolIPs == {"A", "B", "C"}

NextPool ==
    \/ PoolUpdate(PoolLists)
    \/ PoolAcquire
    \/ PoolMarkFailed(PoolIPs)
    \/ PoolMarkSuccess(PoolIPs)
    \/ Tick

SpecPool == InitPre /\ [][NextPool]_vars

(***************************************************************************)
(* SpecClient: the client from its construction on: lookups, manual and    *)
(* periodic refresh and close in any order; every resolution request is    *)
(* answered.                                                               *)
(***************************************************************************)
ClientConfigs ==
    [enableCache : {TRUE}, enableExpiredIP : {FALSE}, maxRetries : {0},
     bootstrapIPs : {<<"b1">>}, logger : {TRUE}]

ClientLists == {<<D_A>>}
ClientQueryTypes == {QT_IPv4}

InitClientDefault == InitClient(ClientConfigs)

NextClient ==
    \/ ClientGetHttpDnsResultForHostSync({D_A}, ClientQueryTypes)
    \/ ClientGetHttpDnsResultForHostSyncNonBlocking({D_A}, ClientQueryTypes)
    \/ ClientUpdateServiceIPs
    \/ PeriodicUpdate
    \/ Close
    \/ HttpReply({})
    \/ DiscoveryReply

SpecClient == InitClientDefault /\ [][NextClient]_vars

(***************************************************************************)
(* SpecClose: the client from its construction on with close and the       *)
(* queries beside the lookups, pre-resolve and the manual refresh, within  *)
(* the first eight hours of its life.                                      *)
(***************************************************************************)
NextClose ==
    \/ ClientGetHttpDnsResultForHostSync({D_A}, ClientQueryTypes)
    \/ ClientGetHttpDnsResultForHostSyncNonBlocking({D_A}, ClientQueryTypes)
    \/ ClientSetPreResolveHosts(ClientLists)
    \/ ClientUpdateServiceIPs
    \/ Close
    \/ ClientGetServiceIPs
    \/ ClientIsHealthy
    \/ HttpReply({})
    \/ DiscoveryReply

SpecClose == InitClientDefault /\ [][NextClose]_vars

(***************************************************************************)
(* Properties                                                              *)
(***************************************************************************)
\* the record a resolution returned, as the entry stored from it holds it
RecordOf(entry) ==
    [domain |-> entry.domain,
     ipv4 |-> entry.ipv4, ipv4Ttl |-> entry.ipv4Ttl, ipv4Timestamp |-> entry.ipv4Timestamp,
     ipv6 |-> entry.ipv6, ipv6Ttl |-> entry.ipv6Ttl, ipv6Timestamp |-> entry.ipv6Timestamp]

\* C1: under SpecSync (blocking resolves with the default selector), a
\* blocking resolve of a domain whose entry was stored from an answer with
\* IPv4 TTL 300 and an empty IPv6 list with TTL 0, issued less than 300 s
\* after that answer, returns the identical record and makes no network call
\* (no resolution, no discovery).
C1_RepeatResolveServedFromCache ==
    (/\ last.ev = "sync"
     /\ last.pre # None
     /\ last.pre[1].ipv4Ttl = 300
     /\ last.pre[1].ipv6 = <<>>
     /\ last.pre[1].ipv6Ttl = 0
     /\ now < last.pre[1].ipv4Timestamp + 300 * MS_PER_SECOND)
    => /\ last.outcome = "hit"
       /\ last.ret = Some(RecordOf(last.pre[1]))
       /\ last.started = None
       /\ last.requests = 0

\* C2: a blocking resolve whose network resolution fails returns a result
\* for the requested domain with empty address lists, both TTLs zero, and
\* the underlying error attached to it.
C2_FailedResolveCarriesError ==
    (/\ last.ev = "done"
     /\ last.task.kind = "sync"
     /\ ~last.ok)
    => /\ last.settled = "fulfilled"
       /\ last.ret # None
       /\ last.ret[1].domain = last.task.domain
       /\ last.ret[1].ipv4 = <<>> /\ last.ret[1].ipv4Ttl = 0
       /\ last.ret[1].ipv6 = <<>> /\ last.ret[1].ipv6Ttl = 0
       /\ "error" \in DOMAIN last.ret[1]
       /\ last.ret[1].error = last.error[1]

\* C3: a resolution that fails on a retryable error has sent exactly
\* maxRetries + 1 requests and fails with that last error (enhanced); no
\* resolution ever has more than maxRetries + 1 requests behind it.
C3_ExactlyMaxRetriesPlusOneAttempts ==
    /\ (/\ last.ev = "done"
        /\ last.lastError # None
        /\ shouldRetry(last.lastError[1]))
        => /\ last.task.sent = config.maxRetries + 1
           /\ ~last.ok
           /\ last.error = Some(enhanceError(last.lastError[1], last.task.domain))
    /\ \A task \in BagToSet(tasks) : task.sent <= config.maxRetries + 1

\* C3 happens: with maxRetries = MaxRetriesBound a resolution has failed after
\* MaxRetriesBound + 1 requests, the last one reset by the peer
C3_Witness ==
    /\ last.ev = "done"
    /\ config.maxRetries = MaxRetriesBound
    /\ last.lastError = Some(E_RESET)
    /\ last.task.sent = MaxRetriesBound + 1
    /\ last.error = Some(createNetworkError(D_A, E_RESET))

\* an error that is never retried: HTTP 401 / 403, or tagged Auth / Config
IsAuthOrConfig(error) ==
    \/ error.status \in {401, 403}
    \/ error.cls = "HTTPDNSError" /\ error.operation \in {"AUTH_ERROR", "CONFIG_ERROR"}

\* C4: when an attempt fails with HTTP 401 / 403 or with an error tagged
\* Auth or Config, the resolution ends with that attempt (no further request
\* is sent) whatever maxRetries is, the error surfaced for 401 / 403 has kind
\* Auth, and the endpoint failure records are what they were.
C4_AuthAndConfigNeverRetried ==
    (/\ last.ev \in {"retry", "done"}
     /\ last.lastError # None
     /\ IsAuthOrConfig(last.lastError[1]))
    => /\ last.ev = "done"
       /\ ~last.ok
       /\ last.lastError[1].status \in {401, 403}
            => last.error[1].operation = "AUTH_ERROR"
       /\ failedIPs = last.failedBefore

\* C4 happens: with two retries allowed and a discovered endpoint in use, the
\* first request is answered 403 and the resolution ends there
C4_Witness ==
    /\ last.ev = "done"
    /\ config.maxRetries = MaxRetriesBound
    /\ last.lastError = Some(E_403)
    /\ last.task.sent = 1
    /\ last.task.serviceIP = "s1"
    /\ last.error[1].operation = "AUTH_ERROR"

\* the families of an entry whose deadline has passed, as a selector
\* (Undefined when none has)
ExpiredFamilies(entry) ==
    IF now > entry.ipv4ExpireTime /\ now > entry.ipv6ExpireTime THEN QT_Both
    ELSE IF now > entry.ipv4ExpireTime THEN QT_IPv4
    ELSE IF now > entry.ipv6ExpireTime THEN QT_IPv6
    ELSE Undefined

\* whether an entry is past a deadline the selector asks about
ExpiredFor(entry, queryType) ==
    \/ queryType \in {QT_IPv4, QT_Both} /\ now > entry.ipv4ExpireTime
    \/ queryType \in {QT_IPv6, QT_Both} /\ now > entry.ipv6ExpireTime

\* the record of an entry as a lookup with the given selector hands it out:
\* the list of a family the selector leaves out is empty
RequestedView(entry, queryType) ==
    [RecordOf(entry) EXCEPT !.ipv4 = IF queryType = QT_IPv6 THEN <<>> ELSE entry.ipv4,
                            !.ipv6 = IF queryType = QT_IPv4 THEN <<>> ELSE entry.ipv6]

\* a lookup that got past the validation of its domain
IsLookup == last.ev \in {"sync", "nonblocking"} /\ last.outcome # "throw"

\* C5 as stated: with stale-serving on, a lookup that finds an entry with at
\* least one expired family returns the cached addresses unchanged and starts
\* exactly one background refresh whose selector is the set of expired families.
C5_StaleHitRefreshesExpiredFamilies ==
    (/\ config.enableExpiredIP
     /\ IsLookup
     /\ last.pre # None
     /\ ExpiredFamilies(last.pre[1]) # Undefined)
    => /\ last.ret = Some(RecordOf(last.pre[1]))
       /\ last.started # None
       /\ last.started[1].kind = "async"
       /\ last.started[1].queryType = ExpiredFamilies(last.pre[1])

\* C5 amended: with stale-serving on, a lookup that finds an entry returns at
\* once the cached addresses of the families its selector asks for and leaves
\* the entry as it is; when the entry is expired for that selector it starts
\* exactly one background refresh whose selector is the set of all expired
\* families, and when it is not (even if the other family has expired) it
\* starts nothing.
C5_StaleHitRefreshesWhenRequestedFamilyExpired ==
    (/\ config.enableExpiredIP
     /\ IsLookup
     /\ last.pre # None)
    => /\ last.outcome = "hit"
       /\ last.ret = Some(RequestedView(last.pre[1], last.queryType))
       /\ Entry(cache, last.domain) = last.pre
       /\ ExpiredFor(last.pre[1], last.queryType)
            => /\ last.started # None
               /\ last.started[1].kind = "async"
               /\ last.started[1].origin = "stale"
               /\ last.started[1].domain = last.domain
               /\ last.started[1].queryType = ExpiredFamilies(last.pre[1])
       /\ ~ExpiredFor(last.pre[1], last.queryType)
            => last.started = None /\ last.requests = 0

\* C5 happens: a lookup for both families finds the IPv4 addresses in date
\* and the IPv6 deadline passed, and a refresh for IPv6 alone is started
C5_Witness ==
    /\ config.enableExpiredIP
    /\ last.ev = "nonblocking"
    /\ last.queryType = QT_Both
    /\ last.pre # None
    /\ last.pre[1].ipv4 = V4List
    /\ now <= last.pre[1].ipv4ExpireTime
    /\ now > last.pre[1].ipv6ExpireTime
    /\ last.ret = Some(RecordOf(last.pre[1]))
    /\ last.started # None
    /\ last.started[1].queryType = QT_IPv6

\* C6 as stated: a non-blocking lookup of a domain whose entry has both
\* deadlines unexpired returns exactly the stored address lists and TTLs and
\* starts nothing.
C6_FreshHitReturnsStoredRecord ==
    (/\ last.ev = "nonblocking"
     /\ last.outcome # "throw"
     /\ last.pre # None
     /\ now <= last.pre[1].ipv4ExpireTime
     /\ now <= last.pre[1].ipv6ExpireTime)
    => /\ last.ret = Some(RecordOf(last.pre[1]))
       /\ last.started = None
       /\ last.requests = 0

\* C6 amended: a non-blocking lookup of a domain whose entry has both
\* deadlines unexpired returns the stored address lists of the families its
\* selector asks for (an empty list for a family it leaves out) and both
\* stored TTLs, starts neither a resolution nor a background task, and leaves
\* the entry as it is.
C6_FreshHitReturnsRequestedFamilies ==
    (/\ last.ev = "nonblocking"
     /\ last.outcome # "throw"
     /\ last.pre # None
     /\ now <= last.pre[1].ipv4ExpireTime
     /\ now <= last.pre[1].ipv6ExpireTime)
    => /\ last.outcome = "hit"
       /\ last.ret = Some(RequestedView(last.pre[1], last.queryType))
       /\ last.started = None
       /\ last.requests = 0
       /\ Entry(cache, last.domain) = last.pre

\* C6 happens: an entry holding both families is read for IPv4 alone on the
\* very millisecond of its deadlines
C6_Witness ==
    /\ last.ev = "nonblocking"
    /\ last.queryType = QT_IPv4
    /\ last.pre # None
    /\ last.pre[1].ipv4 = V4List
    /\ last.pre[1].ipv6 = V6List
    /\ now = last.pre[1].ipv4ExpireTime
    /\ now = last.pre[1].ipv6ExpireTime
    /\ last.ret # None
    /\ last.ret[1].ipv4 = V4List
    /\ last.ret[1].ipv6 = <<>>

\* C7: with stale-serving off, a lookup that finds the entry expired for its
\* selector deletes the entry and goes on as a miss: a blocking resolve starts
\* a network resolution of its own, a non-blocking lookup returns null and
\* starts a background one, both for the selector asked for.
C7_ExpiredEntryIsDeletedAndMissed ==
    (/\ ~config.enableExpiredIP
     /\ IsLookup
     /\ last.pre # None
     /\ ExpiredFor(last.pre[1], last.queryType))
    => /\ last.outcome = "miss"
       /\ last.domain \notin DOMAIN cache
       /\ last.started # None
       /\ last.started[1].origin = "miss"
       /\ last.started[1].domain = last.domain
       /\ last.started[1].queryType = last.queryType
       /\ last.started[1].kind = (IF last.ev = "sync" THEN "sync" ELSE "async")
       /\ last.ev = "nonblocking" => last.ret = None

\* C7 happens: a blocking resolve for both families finds an entry whose IPv6
\* deadline alone has passed, and resolves anew
C7_Witness ==
    /\ ~config.enableExpiredIP
    /\ last.ev = "sync"
    /\ last.queryType = QT_Both
    /\ last.pre # None
    /\ now <= last.pre[1].ipv4ExpireTime
    /\ now > last.pre[1].ipv6ExpireTime
    /\ last.outcome = "miss"
    /\ last.started # None
    /\ last.domain \notin DOMAIN cache

\* C8: under SpecAsync (non-blocking lookups with the default selector), a
\* lookup that misses returns null and starts one background resolution, and
\* a lookup that finds the entry stored by such a resolution, made before the
\* TTL the answer gave has run out, returns the resolved record.
C8_MissThenLaterLookupReturnsRecord ==
    /\ (last.ev = "nonblocking" /\ last.outcome = "miss")
        => /\ last.ret = None
           /\ last.started # None
           /\ last.started[1].kind = "async"
    /\ (/\ last.ev = "nonblocking"
        /\ last.pre # None
        /\ (last.pre[1].ipv4Ttl > 0 \/ last.pre[1].ipv6Ttl > 0)
        /\ last.pre[1].ipv4Ttl > 0 => now <= last.pre[1].ipv4ExpireTime
        /\ last.pre[1].ipv6Ttl > 0 => now <= last.pre[1].ipv6ExpireTime)
        => last.ret = Some(RecordOf(last.pre[1]))

\* C9 as stated: the non-blocking lookup never throws, whatever the domain.
C9_NonBlockingNeverThrows ==
    last.ev = "nonblocking" => last.outcome # "throw" /\ last.error = None

\* C9 amended: the non-blocking lookup throws exactly when the domain is
\* empty or not a well-formed name, and then before any cache or network
\* step; for a well-formed name it returns a record or null, and no outcome
\* of the background resolution it starts reaches a caller.
C9_NonBlockingThrowsOnlyOnBadDomain ==
    /\ last.ev = "nonblocking"
        => /\ last.outcome = "throw" <=> last.domain \notin ValidDomains
           /\ last.outcome = "throw"
                => /\ last.error # None
                   /\ last.ret = None
                   /\ last.started = None
                   /\ last.requests = 0
                   /\ Entry(cache, last.domain) = last.pre
           /\ last.outcome # "throw" => last.error = None
    /\ (last.ev = "done" /\ last.task.kind = "async")
        => last.settled = "fulfilled" /\ last.ret = None

\* C9 happens: a non-blocking lookup of a name with a leading hyphen throws
C9_Witness ==
    /\ last.ev = "nonblocking"
    /\ last.domain = D_BAD
    /\ last.outcome = "throw"
    /\ last.error = Some("Invalid domain format")

\* C10: the step in which a background resolution (stale refresh, resolution
\* of a non-blocking miss, pre-resolve batch) fails leaves the cache exactly
\* as it was, leaves every other resolution in flight as it was, and reaches
\* no caller: the task settles without an error and without a value.
C10_BackgroundFailureOnlyLogged ==
    [][(/\ last'.ev = "done"
        /\ last'.task.kind = "async"
        /\ ~last'.ok)
       => /\ cache' = cache
          /\ tasks' = tasks (-) SetToBag({last'.task})
          /\ last'.settled = "fulfilled"
          /\ last'.ret = None]_vars

\* C10 happens: a pre-resolve batch fails while a blocking resolve is in
\* flight
C10_Witness ==
    /\ last.ev = "done"
    /\ last.task.kind = "async"
    /\ last.task.origin = "preresolve"
    /\ ~last.ok
    /\ \E task \in BagToSet(tasks) : task.kind = "sync"

\* five minutes, in milliseconds
FiveMinutes == 5 * 60 * MS_PER_SECOND

\* an endpoint with a failure record at most five minutes old
InCooldown(pool, ip) ==
    ip \in DOMAIN pool.failedIPs /\ now - pool.failedIPs[ip] <= FiveMinutes

\* the positions of the list members that are not in cooldown
HealthyAt(pool) ==
    {i \in 1..Len(pool.serviceIPs) : ~InCooldown(pool, pool.serviceIPs[i])}

\* C12: for the list [A, B, C] with the current endpoint just marked failed
\* (so none is current) and every failure record within its cooldown, acquire
\* returns B when A alone has failed, C when A and B have, and A again when
\* all three have: list order, first one not failed, else the first.
C12_RotationFollowsListOrder ==
    (/\ last.ev = "acquire"
     /\ last.before.serviceIPs = ABC
     /\ last.before.currentIP = Undefined
     /\ \A ip \in DOMAIN last.before.failedIPs : InCooldown(last.before, ip))
    => /\ DOMAIN last.before.failedIPs = {"A"} => last.ret = "B"
       /\ DOMAIN last.before.failedIPs = {"A", "B"} => last.ret = "C"
       /\ DOMAIN last.before.failedIPs = {"A", "B", "C"} => last.ret = "A"

\* C12 happens: A, B and C have all failed within the last five minutes and
\* acquire comes back to A
C12_Witness ==
    /\ last.ev = "acquire"
    /\ last.before.serviceIPs = ABC
    /\ last.before.currentIP = Undefined
    /\ DOMAIN last.before.failedIPs = {"A", "B", "C"}
    /\ \A ip \in {"A", "B", "C"} : InCooldown(last.before, ip)
    /\ last.ret = "A"
    /\ currentIP = "A"

\* C13: acquire never hands out an endpoint whose failure record is at most
\* five minutes old while another list member is not in cooldown, and hands
\* out the current endpoint (or, with none current, the first list member) as
\* soon as its record is more than five minutes old; the record itself is
\* still there afterwards: nothing but the clock made the endpoint usable.
C13_CooldownIsFiveMinutesAndLazy ==
    (last.ev = "acquire" /\ last.before.serviceIPs # <<>>)
    => /\ \A ip \in DOMAIN last.before.failedIPs :
            /\ (InCooldown(last.before, ip) /\ HealthyAt(last.before) # {})
                 => last.ret # ip
            /\ (/\ ~InCooldown(last.before, ip)
                /\ \/ last.before.currentIP = ip /\ Includes(last.before.serviceIPs, ip)
                   \/ last.before.currentIP = Undefined /\ last.before.serviceIPs[1] = ip)
                 => last.ret = ip
       /\ failedIPs = last.before.failedIPs

\* C13 happens: A failed at time 0 and is handed out again at five minutes
\* and one millisecond, its failure record still in place
C13_Witness ==
    /\ last.ev = "acquire"
    /\ last.before.serviceIPs = ABC
    /\ last.before.currentIP = Undefined
    /\ "A" \in DOMAIN last.before.failedIPs
    /\ now - last.before.failedIPs["A"] = FiveMinutes + 1
    /\ last.ret = "A"
    /\ "A" \in DOMAIN failedIPs

\* C20: acquire returns nothing exactly when the list is empty; otherwise it
\* returns a list member, one in cooldown only when every member is, the
\* current endpoint when that is a healthy member, else the first healthy
\* member in list order, else the first member; what it returns is the
\* current endpoint afterwards, and the list and the failure records are as
\* they were.
C20_AcquireSelectionRule ==
    last.ev = "acquire"
    => LET b == last.before
           curOk == /\ b.currentIP # Undefined
                    /\ Includes(b.serviceIPs, b.currentIP)
                    /\ ~InCooldown(b, b.currentIP)
       IN  /\ last.ret = Undefined <=> b.serviceIPs = <<>>
           /\ b.serviceIPs = <<>> => currentIP = b.currentIP
           /\ b.serviceIPs # <<>> =>
                /\ Includes(b.serviceIPs, last.ret)
                /\ HealthyAt(b) # {} => ~InCooldown(b, last.ret)
                /\ curOk => last.ret = b.currentIP
                /\ (~curOk /\ HealthyAt(b) # {}) =>
                     last.ret = b.serviceIPs[CHOOSE i \in HealthyAt(b) :
                                                \A j \in HealthyAt(b) : i <= j]
                /\ HealthyAt(b) = {} => last.ret = b.serviceIPs[1]
                /\ currentIP = last.ret
           /\ serviceIPs = b.serviceIPs
           /\ failedIPs = b.failedIPs

\* C20 happens: the current endpoint C is in cooldown, A too, and acquire
\* moves on to B, the first healthy member
C20_Witness ==
    /\ last.ev = "acquire"
    /\ last.before.serviceIPs = ABC
    /\ last.before.currentIP = "C"
    /\ InCooldown(last.before, "C")
    /\ InCooldown(last.before, "A")
    /\ last.ret = "B"
    /\ currentIP = "B"

\* the addresses a discovery run asks, in the order the claim gives them
DiscoveryOrder == config.bootstrapIPs \o <<DEFAULT_BOOTSTRAP_DOMAIN>>

\* C14: a discovery run starts with the first configured bootstrap address;
\* each of its requests goes to the next address in configured order, the
\* bootstrap domain coming once after the last of them; the first non-empty
\* list ends the run and is installed as it is; an error or an empty list
\* leaves the installed list alone and moves on; when the bootstrap domain
\* fails too, the run rejects with a Network-kind "Service unavailable".
C14_DiscoveryFollowsConfiguredOrder ==
    [][/\ (fetching = None /\ fetching' # None) => fetching'[1].idx = 1
       /\ (fetching # None /\ fetching' # fetching) =>
            LET idx == fetching[1].idx
                nonEmpty == ~last'.rejected /\ last'.service_ip # <<>>
            IN  /\ last'.ev = "discovery"
                /\ idx \in 1..Len(DiscoveryOrder)
                /\ last'.target = DiscoveryOrder[idx]
                /\ nonEmpty =>
                     /\ serviceIPs' = last'.service_ip
                     /\ fetching' = None
                     /\ last'.settled = "fulfilled"
                /\ (~nonEmpty /\ idx < Len(DiscoveryOrder)) =>
                     /\ serviceIPs' = serviceIPs
                     /\ fetching' # None
                     /\ fetching'[1].idx = idx + 1
                     /\ last'.settled = "pending"
                /\ (~nonEmpty /\ idx = Len(DiscoveryOrder)) =>
                     /\ serviceIPs' = serviceIPs
                     /\ fetching' = None
                     /\ last'.settled = "rejected"
                     /\ last'.error # None
                     /\ last'.error[1].operation = "NETWORK_ERROR"
                     /\ last'.error[1].original[1].message
                          = <<"Service", "unavailable">>]_vars

\* C14 happens: both bootstrap addresses have failed, the bootstrap domain
\* fails too and the run rejects
C14_Witness ==
    /\ last.ev = "discovery"
    /\ last.target = DEFAULT_BOOTSTRAP_DOMAIN
    /\ last.idx = Len(config.bootstrapIPs) + 1
    /\ Len(config.bootstrapIPs) = 2
    /\ last.settled = "rejected"
    /\ fetching = None

\* the discovery requests the step recorded in l sent: the requests it sent
\* less the resolution requests it sent
DiscoveryRequestsOf(l) ==
    IF l.ev \in {"sync", "nonblocking"}
    THEN l.requests - (IF l.started = None THEN 0 ELSE 1)
    ELSE IF l.ev = "retry" THEN l.requests - 1
    ELSE IF l.ev = "preresolve" THEN l.requests - Len(l.started)
    ELSE IF l.ev \in {"update", "timer"} THEN l.requests
    ELSE 0

\* C11: while a discovery run is in flight, no step but the settling of its
\* own request touches it: a lookup, a retry, a pre-resolve, a manual refresh
\* or the periodic timer sends no discovery request and leaves the run as it
\* is, and a refresh joins it; when the run ends, fulfilled or rejected, every
\* caller that joined settles in that step with that outcome and none stays
\* behind.
C11_OneDiscoveryRunShared ==
    [][/\ (fetching # None /\ last'.ev # "discovery") =>
            /\ fetching' = fetching
            /\ DiscoveryRequestsOf(last') = 0
            /\ (last'.ev \in {"update", "timer"} /\ last'.outcome = "awaiting") =>
                 /\ last'.joined
                 /\ client'.waiting = client.waiting + 1
       /\ (fetching # None /\ last'.ev = "discovery") =>
            /\ last'.waiting = client.waiting
            /\ (fetching' = None) <=> (last'.settled \in {"fulfilled", "rejected"})
            /\ (fetching' = None) => client'.waiting = 0
            /\ (fetching' # None) => client'.waiting = client.waiting]_vars

\* C11 happens: a manual refresh joined the run started at construction, a
\* lookup found the pool empty meanwhile, and the run fails for both callers
C11_Witness ==
    /\ last.ev = "discovery"
    /\ last.settled = "rejected"
    /\ last.waiting = 2
    /\ tasks # EmptyBag
    /\ now = 0

\* C17: close sets closed and clears the periodic timer, and the first close
\* empties the cache; a further close changes nothing.  From then on the
\* client stays closed, the timer stays cleared, and each public operation
\* leaves the client as it is: a blocking resolve throws a CONFIG_ERROR, a
\* non-blocking lookup returns null, getServiceIPs returns the empty list,
\* isHealthy returns false, updateServiceIPs throws a CONFIG_ERROR and joins
\* no discovery run, pre-resolve starts nothing.
C17_ClosedClientIsInert ==
    [][/\ last'.ev = "close" =>
            /\ client'.closed
            /\ ~client'.updateTimer
            /\ ~client.closed => cache' = EmptyMap
       /\ client.closed =>
            /\ client'.closed
            /\ ~client'.updateTimer
            /\ last'.ev \in {"close", "sync", "nonblocking", "getServiceIPs",
                              "isHealthy", "update", "preresolve"} =>
                 UNCHANGED <<config, now, cache, serviceIPs, currentIP, failedIPs,
                             fetching, tasks, calls, client>>
            /\ last'.ev = "sync" =>
                 /\ last'.thrown # None
                 /\ last'.thrown[1].cls = "HTTPDNSError"
                 /\ last'.thrown[1].operation = "CONFIG_ERROR"
                 /\ last'.ret = None
            /\ last'.ev = "nonblocking" =>
                 /\ last'.thrown = None
                 /\ last'.ret = None
            /\ last'.ev = "getServiceIPs" => last'.ret = <<>>
            /\ last'.ev = "isHealthy" => last'.ret = FALSE
            /\ last'.ev = "update" =>
                 /\ last'.thrown # None
                 /\ last'.thrown[1].operation = "CONFIG_ERROR"
            /\ last'.ev = "preresolve" =>
                 /\ last'.started = <<>>
                 /\ last'.requests = 0]_vars

\* C17 happens: close empties a cache that holds a record and leaves the
\* installed endpoint list behind the guards
C17_Witness ==
    /\ last.ev = "close"
    /\ ~last.wasClosed
    /\ last.cacheBefore # EmptyMap
    /\ cache = EmptyMap
    /\ serviceIPs # <<>>
    /\ client.closed

\* the names of combined request number i of the pre-resolve call recorded
\* in last
BatchNames(i) == Split(last.started[i].domain, ",")

\* C15: a pre-resolve call with more than 100 domains sends nothing and,
\* with a logger configured, logs one warning; a call with at most 100 logs
\* no warning and sends ceil(k / 5) combined requests for the k domains
\* that survive the filter: five names in each but the last, the survivors
\* in their order, each occurrence in exactly one request; 100 distinct
\* valid uncached domains make 20 requests of 5.
C15_PreResolveCapAndBatches ==
    last.ev = "preresolve"
    => LET k == Len(last.valid)
           n == Len(last.started)
       IN  /\ Len(last.domains) > 100 =>
                /\ n = 0
                /\ last.requests = 0
                /\ config.logger => last.warnings = 1
           /\ Len(last.domains) <= 100 =>
                /\ last.warnings = 0
                /\ n * 5 >= k
                /\ (n - 1) * 5 < k
                /\ last.requests \in {n, n + 1}
                /\ \A i \in 1..n :
                     Len(BatchNames(i)) = IF i < n THEN 5 ELSE k - 5 * (n - 1)
                /\ \A j \in 1..k :
                     BatchNames(((j - 1) \div 5) + 1)[((j - 1) % 5) + 1] = last.valid[j]
           /\ (Len(last.domains) = 100
               /\ Cardinality({last.domains[i] : i \in 1..100}) = 100
               /\ \A i \in 1..100 : isValidDomain(last.domains[i])
                                      /\ ~isIPAddress(last.domains[i])
                                      /\ last.domains[i] \notin DOMAIN last.cacheBefore)
              => n = 20 /\ \A i \in 1..20 : Len(BatchNames(i)) = 5

\* C15 happens: 100 distinct valid names go out in 20 requests, all in
\* flight
C15_Witness ==
    /\ last.ev = "preresolve"
    /\ Len(last.domains) = 100
    /\ Cardinality({last.domains[i] : i \in 1..100}) = 100
    /\ Len(last.valid) = 100
    /\ Len(last.started) = 20
    /\ BagCardinality(tasks) >= 20

\* a dotted-quad or a colon-separated address
LiteralIP(name) ==
    \/ /\ Len(Split(name, ".")) = 4
       /\ \A i \in 1..4 : /\ Split(name, ".")[i] # <<>>
                           /\ AllIn(Split(name, ".")[i], Digits)
    \/ Includes(name, ":")

C18_DisabledCacheStaysEmpty ==
    ~config.enableCache
    => /\ cache = EmptyMap
       /\ (last.ev = "sync" /\ last.outcome # "throw") =>
            /\ last.outcome = "miss"
            /\ last.pre = None
            /\ last.started # None
            /\ last.started[1].kind = "sync"
            /\ last.requests >= 1
       /\ (last.ev = "nonblocking" /\ last.outcome # "throw") =>
            /\ last.outcome = "miss"
            /\ last.ret = None

\* C18 happens: a blocking resolution comes back with addresses and a
\* positive TTL, and the cache stays empty
C18_Witness ==
    /\ ~config.enableCache
    /\ last.ev = "done"
    /\ last.task.kind = "sync"
    /\ last.ok
    /\ last.ret # None
    /\ last.ret[1].ipv4Ttl > 0
    /\ cache = EmptyMap

\* C19: the health bookkeeping of a resolution follows the endpoint its
\* request was sent to: when the request fails at transport level and the
\* failure is retryable, a failure is recorded at this moment for that
\* endpoint and the records of all other endpoints are as before; when the
\* request is answered with success, the record of that endpoint is
\* removed and the records of all other endpoints are as before.
C19_HealthFollowsContactedEndpoint ==
    (last.ev \in {"retry", "done"})
    => LET contacted == last.task.serviceIP
           err == last.lastError
       IN  /\ (err # None /\ shouldRetry(err[1]) /\ isNetworkError(err[1]))
                => failedIPs = MapPut(last.failedBefore, contacted, now)
           /\ (err = None)
                => failedIPs = MapDelete(last.failedBefore, contacted)

\* whether the request that just settled failed at transport level with an
\* error executeWithRetry retries
TransportFailure(l) ==
    /\ l.lastError # None
    /\ shouldRetry(l.lastError[1])
    /\ isNetworkError(l.lastError[1])

\* the listed endpoints other than ip that had no failure record in force
\* when the request settled
OtherHealthy(l, ip) ==
    {e \in {serviceIPs[i] : i \in 1..Len(serviceIPs)} :
        e # ip /\ isIPAvailable([failedIPs |-> l.failedBefore], e, now)}

\* C21: within one resolve, when an attempt sent to endpoint E fails at
\* transport level while the pool lists another healthy endpoint, the next
\* attempt goes to an endpoint other than E.
C21_RetryLeavesFailedEndpoint ==
    (/\ last.ev = "retry"
     /\ TransportFailure(last)
     /\ OtherHealthy(last, last.task.serviceIP) # {})
    => last.next.serviceIP # last.task.serviceIP

\* C22: an attempt that finds the endpoint pool empty has its request to
\* the first bootstrap address in flight in the same step, with a discovery
\* run in flight beside it; and the failure of a discovery run removes no
\* resolution in flight and changes none of them.
C22_EmptyPoolUsesBootstrapAtOnce ==
    [][/\ (/\ last'.ev = "sync"
           /\ last'.started # None
           /\ serviceIPs = <<>>)
          => /\ last'.started[1].serviceIP = config.bootstrapIPs[1]
             /\ BagIn(last'.started[1], tasks')
             /\ last'.requests >= 1
             /\ fetching' # None
             /\ serviceIPs' = <<>>
       /\ (/\ last'.ev = "retry"
           /\ serviceIPs = <<>>)
          => /\ last'.next.serviceIP = config.bootstrapIPs[1]
             /\ BagIn(last'.next, tasks')
             /\ fetching' # None
       /\ (/\ last'.ev = "discovery"
           /\ last'.settled = "rejected")
          => tasks' = tasks]_vars

\* C22 happens: a resolve started on an empty pool is answered by the first
\* bootstrap address after the discovery run beside it has failed
C22_Witness ==
    /\ last.ev = "done"
    /\ last.ok
    /\ last.task.attempt = 0
    /\ last.task.serviceIP = config.bootstrapIPs[1]
    /\ serviceIPs = <<>>
    /\ fetching = None

\* the errors that count against an endpoint: a transport error code, or an
\* HTTP status of 500 and above, 429 or 408
CountsAgainstEndpoint(e) ==
    \/ e.code \in {"ECONNRESET", "ECONNREFUSED", "ETIMEDOUT", "ENOTFOUND",
                   "EAI_AGAIN", "ECONNABORTED"}
    \/ e.status >= 500
    \/ e.status = 429
    \/ e.status = 408

\* a malformed-response error, or the error of a response whose code is not
\* success
MalformedOrNonSuccess(e) ==
    /\ e.cls = "HTTPDNSError"
    /\ \/ e.operation = "PARSE_ERROR"
       \/ /\ e.operation = "NETWORK_ERROR"
          /\ Len(e.original[1].message) >= 2
          /\ SubSeq(e.original[1].message, 1, 2) = <<"Resolve", "failed:">>

\* C23: a malformed-response error or a non-success response code is
\* retried while attempts are left and leaves the failure records as they
\* were; a failure record is made only for an error that counts against an
\* endpoint.
C23_OnlyTransportErrorsCountAgainstEndpoint ==
    (last.ev \in {"retry", "done"} /\ last.lastError # None)
    => LET e == last.lastError[1]
       IN  /\ MalformedOrNonSuccess(e)
                => /\ failedIPs = last.failedBefore
                   /\ last.task.attempt < config.maxRetries
                        => /\ last.ev = "retry"
                           /\ last.next.attempt = last.task.attempt + 1
           /\ failedIPs # last.failedBefore => CountsAgainstEndpoint(e)

\* C23 happens: with a current endpoint in the pool, a malformed response is
\* retried and no failure is recorded
C23_Witness ==
    /\ last.ev = "retry"
    /\ last.lastError # None
    /\ last.lastError[1].operation = "PARSE_ERROR"
    /\ last.task.serviceIP = "s1"
    /\ last.failedBefore = EmptyMap
    /\ failedIPs = EmptyMap
    /\ serviceIPs # <<>>

\* C24: a blocking lookup of a malformed domain throws and leaves the cache,
\* the endpoint pool, the discovery run and the resolutions in flight as they
\* were, sending no request; and NetworkManager.resolve of that domain
\* throws a Network-kind error before it acquires an endpoint or sends a
\* request.
C24_MalformedDomainRejectedBeforeAnyEffect ==
    [][(last'.ev = "sync" /\ ~isValidDomain(last'.domain))
       => /\ last'.outcome = "throw"
          /\ last'.error # None
          /\ last'.ret = None
          /\ last'.started = None
          /\ last'.requests = 0
          /\ UNCHANGED <<cache, serviceIPs, currentIP, failedIPs, fetching, tasks>>
          /\ LET r == NetResolveStart("sync", "miss", last'.domain, QT_Both,
                                      Pool, fetching, now)
             IN  /\ r.thrown # None
                 /\ r.thrown[1].cls = "HTTPDNSError"
                 /\ r.thrown[1].operation = "NETWORK_ERROR"
                 /\ r.thrown[1].domain = last'.domain
                 /\ r.task = None
                 /\ r.requests = 0
                 /\ r.pool = Pool
                 /\ r.fetching = fetching]_vars

\* C24 happens: a blocking lookup of a malformed domain has thrown while
\* another resolution is in flight
C24_Witness ==
    /\ last.ev = "sync"
    /\ last.domain = D_BAD
    /\ last.outcome = "throw"
    /\ tasks # EmptyBag

TaxonomyKinds ==
    {"NETWORK_ERROR", "TIMEOUT_ERROR", "AUTH_ERROR", "PARSE_ERROR", "CONFIG_ERROR"}

\* whether a transport error is a timeout
IsTimeout(raw) ==
    \/ raw.code = "ECONNABORTED"
    \/ Includes(raw.message, "timeout")
    \/ Includes(raw.message, "ETIMEDOUT")

\* C25: the error NetworkManager.resolve throws is of a taxonomy kind and
\* carries the domain being resolved; a transport error is wrapped, as Auth
\* for status 401 or 403, else as Timeout when it is a timeout, else as
\* Network.
C25_SurfacedErrorsAreTaxonomyKinds ==
    (last.ev = "done" /\ last.lastError # None)
    => LET raw == last.lastError[1]
       IN  /\ last.error # None
           /\ last.error[1].cls = "HTTPDNSError"
           /\ last.error[1].operation \in TaxonomyKinds
           /\ last.error[1].domain = last.task.domain
           /\ raw.cls = "Error"
                => last.error[1].operation =
                     IF raw.status \in {401, 403} THEN "AUTH_ERROR"
                     ELSE IF IsTimeout(raw) THEN "TIMEOUT_ERROR"
                     ELSE "NETWORK_ERROR"

\* C25 happens: a resolve whose last attempt timed out surfaces a Timeout
\* error, and one refused with 403 surfaces an Auth error
C25_Witness ==
    /\ last.ev = "done"
    /\ last.lastError \in {Some(E_TIMEOUT), Some(E_403)}
    /\ last.error # None
    /\ last.error[1].operation \in {"TIMEOUT_ERROR", "AUTH_ERROR"}
    /\ last.error[1].domain = D_A

\* the v4 half and the v6 half of a cache entry
V4Of(entry) == <<entry.ipv4, entry.ipv4Ttl, entry.ipv4ExpireTime>>
V6Of(entry) == <<entry.ipv6, entry.ipv6Ttl, entry.ipv6ExpireTime>>

\* C26: a put on an existing entry refreshes the families that the selector
\* covers and that carry a positive TTL in the record put, and leaves the
\* addresses, TTL and deadline of every other family as they were; a put of
\* a record with no positive TTL leaves the cache as it was.
C26_PutRefreshesOnlyCoveredFamilies ==
    (last.ev = "set")
    => LET d == last.domain
           q == last.queryType
           r == last.result
           before == last.cacheBefore
       IN  /\ d \in DOMAIN before
                => /\ d \in DOMAIN cache
                   /\ V4Of(cache[d]) =
                        IF q \in {QT_IPv4, QT_Both} /\ r.ipv4Ttl > 0
                        THEN <<r.ipv4, r.ipv4Ttl, now + r.ipv4Ttl * 1000>>
                        ELSE V4Of(before[d])
                   /\ V6Of(cache[d]) =
                        IF q \in {QT_IPv6, QT_Both} /\ r.ipv6Ttl > 0
                        THEN <<r.ipv6, r.ipv6Ttl, now + r.ipv6Ttl * 1000>>
                        ELSE V6Of(before[d])
           /\ (r.ipv4Ttl = 0 /\ r.ipv6Ttl = 0) => cache = before

\* C26 happens: a put with the v4 selector of a record answered in both
\* families refreshes the v4 half of an older entry and keeps its v6 half
C26_Witness ==
    /\ last.ev = "set"
    /\ last.domain \in DOMAIN last.cacheBefore
    /\ last.queryType = QT_IPv4
    /\ last.result.ipv4Ttl > 0
    /\ last.result.ipv6Ttl > 0
    /\ V4Of(cache[last.domain]) # V4Of(last.cacheBefore[last.domain])
    /\ V6Of(cache[last.domain]) = V6Of(last.cacheBefore[last.domain])
    /\ cache[last.domain].ipv6ExpireTime # now + last.result.ipv6Ttl * 1000

\* C30: every entry in the cache has a positive TTL in at least one family.
C30_StoredEntriesHaveAPositiveTTL ==
    \A d \in DOMAIN cache : cache[d].ipv4Ttl > 0 \/ cache[d].ipv6Ttl > 0

\* C30 happens: a blocking resolution is answered with TTL 0 in both
\* families and no entry is stored for its domain
C30_Witness ==
    /\ last.ev = "done"
    /\ last.ok
    /\ last.task.kind = "sync"
    /\ last.ret # None
    /\ last.ret[1].ipv4Ttl = 0
    /\ last.ret[1].ipv6Ttl = 0
    /\ last.task.domain \notin DOMAIN cache

\* C29: with stale-serving on, every domain that has a cache entry before a
\* pre-resolve request has the same entry right after it.
C29_PreResolveKeepsEntries ==
    (config.enableExpiredIP /\ last.ev = "preresolve")
    => \A d \in DOMAIN last.cacheBefore :
          d \in DOMAIN cache /\ cache[d] = last.cacheBefore[d]

\* whether a step only removed entries from the cache
OnlyDeleted(before, after) ==
    /\ DOMAIN after \subseteq DOMAIN before
    /\ \A d \in DOMAIN after : after[d] = before[d]

\* what the completion of a resolution with record r leaves in the entry of
\* its domain: each family r carries with a positive TTL holds r's value,
\* every other family of an entry that was there is as before
WrittenLast(r, before, after, t) ==
    LET d == r.domain
    IN  /\ r.ipv4Ttl > 0
             => d \in DOMAIN after
                /\ V4Of(after[d]) = <<r.ipv4, r.ipv4Ttl, t + r.ipv4Ttl * 1000>>
        /\ r.ipv6Ttl > 0
             => d \in DOMAIN after
                /\ V6Of(after[d]) = <<r.ipv6, r.ipv6Ttl, t + r.ipv6Ttl * 1000>>
        /\ (r.ipv4Ttl = 0 /\ d \in DOMAIN before)
             => d \in DOMAIN after /\ V4Of(after[d]) = V4Of(before[d])
        /\ (r.ipv6Ttl = 0 /\ d \in DOMAIN before)
             => d \in DOMAIN after /\ V6Of(after[d]) = V6Of(before[d])
        /\ (r.ipv4Ttl = 0 /\ r.ipv6Ttl = 0 /\ d \notin DOMAIN before)
             => d \notin DOMAIN after

\* C27: an entry is written only in the step that completes a resolution
\* with success, and that step leaves in the entry, for each family the
\* resolution carried with a positive TTL, the value it carried, whatever
\* another resolution of the same domain wrote before; the other families
\* stay as the earlier writer left them.
C27_CacheWritesAreLastWriterWins ==
    [][/\ ~OnlyDeleted(cache, cache') => (last'.ev = "done" /\ last'.ok)
       /\ (last'.ev = "done" /\ last'.ok /\ config.enableCache)
            => \A i \in 1..Len(last'.results) :
                  WrittenLast(last'.results[i], cache, cache', now)]_vars

\* C27 happens: a resolution started on a miss completes after another
\* resolution of the same domain has stored an entry, rewrites that entry,
\* and nothing is left in flight
C27_Witness ==
    /\ last.ev = "done"
    /\ last.ok
    /\ last.task.origin = "miss"
    /\ last.task.domain \in DOMAIN last.cacheBefore
    /\ last.task.domain \in DOMAIN cache
    /\ cache[last.task.domain] # last.cacheBefore[last.task.domain]
    /\ tasks = EmptyBag

\* whether every family of the entry that was answered (TTL > 0) is within
\* its deadline at time t, and one family at least was answered
AnsweredFamiliesFresh(entry, t) ==
    /\ entry.ipv4Ttl > 0 \/ entry.ipv6Ttl > 0
    /\ entry.ipv4Ttl > 0 => t <= entry.ipv4ExpireTime
    /\ entry.ipv6Ttl > 0 => t <= entry.ipv6ExpireTime

\* C28: with stale-serving on, when the refresh started by a stale read has
\* just completed with success, carrying a positive TTL, and has left every
\* answered family of the entry within its deadline, a read of the same
\* domain made right then is a hit that starts no further refresh; an entry
\* with one family answered and the other at TTL 0 is included.
C28_NoRefreshAfterCompletedRefresh ==
    [][(/\ config.enableExpiredIP
        /\ last.ev = "done"
        /\ last.ok
        /\ last.task.origin = "stale"
        /\ last.results[1].ipv4Ttl > 0 \/ last.results[1].ipv6Ttl > 0
        /\ last.task.domain \in DOMAIN cache
        /\ AnsweredFamiliesFresh(cache[last.task.domain], now)
        /\ last'.ev \in {"sync", "nonblocking"}
        /\ last'.domain = last.task.domain)
       => /\ last'.outcome = "hit"
          /\ last'.started = None
          /\ last'.requests = 0]_vars

\* whether each family of a record or entry without a positive TTL has no
\* addresses
NoAddressesWithoutTTL(x) ==
    /\ x.ipv4Ttl <= 0 => x.ipv4 = <<>>
    /\ x.ipv6Ttl <= 0 => x.ipv6 = <<>>

\* C31: in every record a response is converted to and in every cache
\* entry, a family whose TTL is not positive has an empty address list.
C31_NoAddressesWithoutTTL ==
    /\ last.ev = "stored"
         => \A i \in 1..Len(last.results) : NoAddressesWithoutTTL(last.results[i])
    /\ \A d \in DOMAIN cache : NoAddressesWithoutTTL(cache[d])

\* C32: updateServiceIPs(list) installs the list; the current endpoint is
\* unset if the list is empty, unchanged if it was set and is in the list,
\* and the first element of the list otherwise.
C32_ReplaceInstallsListAndFixesCurrent ==
    last.ev = "poolUpdate"
        => /\ serviceIPs = last.ips
           /\ currentIP =
                IF Len(last.ips) = 0 THEN Undefined
                ELSE IF /\ last.before.currentIP # Undefined
                        /\ Includes(last.ips, last.before.currentIP)
                     THEN last.before.currentIP
                ELSE last.ips[1]

\* a list was installed that holds the current endpoint, not at its head
C32_Witness ==
    /\ last.ev = "poolUpdate"
    /\ last.before.currentIP # Undefined
    /\ Includes(last.ips, last.before.currentIP)
    /\ last.ips[1] # last.before.currentIP
    /\ currentIP = last.before.currentIP

\* C38: whatever sequence of updateServiceIPs, getAvailableServiceIP,
\* markIPFailed and markIPSuccess has run, the current endpoint is unset or
\* a member of the endpoint list.
C38_CurrentIsUnsetOrInList ==
    currentIP = Undefined \/ Includes(serviceIPs, currentIP)

\* a list without the current endpoint was installed, and the current
\* endpoint moved into the new list
C38_Witness ==
    /\ last.ev = "poolUpdate"
    /\ last.before.currentIP # Undefined
    /\ ~Includes(last.ips, last.before.currentIP)
    /\ Len(last.ips) > 0
    /\ currentIP = last.ips[1]

\* C34: updateServiceIPs leaves the failure records alone: every endpoint
\* has the failure time it had before, so an endpoint of the new list that
\* was in its cooldown still is.
C34_ReplaceKeepsFailureRecords ==
    last.ev = "poolUpdate"
        => /\ failedIPs = last.before.failedIPs
           /\ \A i \in 1..Len(last.ips) :
                isIPAvailable(Pool, last.ips[i], now)
                    = isIPAvailable(last.before, last.ips[i], now)

\* a list was installed that holds an endpoint in its cooldown, whose
\* failure was recorded at an earlier time
C34_Witness ==
    /\ last.ev = "poolUpdate"
    /\ \E i \in 1..Len(last.ips) :
          /\ last.ips[i] \in DOMAIN failedIPs
          /\ failedIPs[last.ips[i]] < now
          /\ ~isIPAvailable(Pool, last.ips[i], now)

(***************************************************************************)
(* SpecSticky: the endpoint pool with the events remembering the endpoint  *)
(* the last getAvailableServiceIP() handed out, for as long as neither     *)
(* markIPFailed nor updateServiceIPs has been called since.                *)
(***************************************************************************)
Remembered(l) == IF "sticky" \in DOMAIN l THEN l.sticky ELSE Undefined

\* ServiceIPManager.getAvailableServiceIP(), called again
RepeatedAcquire ==
    /\ SetPool(getAvailableServiceIP(Pool, now).pool)
    /\ last' = [ev |-> "acquire", ret |-> getAvailableServiceIP(Pool, now).ip,
                before |-> Pool, previous |-> Remembered(last),
                sticky |-> getAvailableServiceIP(Pool, now).ip]

\* ServiceIPManager.markIPSuccess(ip) between two getAvailableServiceIP()
MarkSuccessBetween(ips) ==
    \E ip \in ips :
        /\ SetPool(markIPSuccess(Pool, ip))
        /\ last' = [ev |-> "markSuccess", ip |-> ip, before |-> Pool,
                    sticky |-> Remembered(last)]

\* time passing between two getAvailableServiceIP()
TickBetween ==
    \E d \in {1, LongTick} :
        /\ d = 1 => now % LongTick < MaxShortTicks
        /\ d = LongTick => now \div LongTick < MaxLongTicks
        /\ now' = now + d
        /\ last' = [ev |-> "tick", sticky |-> Remembered(last)]
        /\ UNCHANGED <<config, cache, serviceIPs, currentIP, failedIPs, fetching,
                       tasks, calls, client>>

NextSticky ==
    \/ PoolUpdate({ABC})
    \/ RepeatedAcquire
    \/ PoolMarkFailed(PoolIPs)
    \/ MarkSuccessBetween(PoolIPs)
    \/ TickBetween

SpecSticky == InitPre /\ [][NextSticky]_vars

\* markIPSuccess(e) touches nothing but e's failure record
MarkSuccessFrame ==
    last.ev = "markSuccess"
        => /\ currentIP = last.before.currentIP
           /\ serviceIPs = last.before.serviceIPs
           /\ \A ip \in PoolIPs \ {last.ip} :
                /\ ip \in DOMAIN failedIPs <=> ip \in DOMAIN last.before.failedIPs
                /\ ip \in DOMAIN failedIPs => failedIPs[ip] = last.before.failedIPs[ip]

\* C33 as stated: getAvailableServiceIP() called again with no markIPFailed
\* and no updateServiceIPs in between returns the endpoint it returned
\* before, and markIPSuccess(e) changes only e's failure record.
C33_RepeatedAcquireReturnsSameEndpoint ==
    /\ (last.ev = "acquire" /\ last.previous # Undefined) => last.ret = last.previous
    /\ MarkSuccessFrame

\* C33, amended: getAvailableServiceIP() called again with no markIPFailed
\* and no updateServiceIPs in between returns the endpoint it returned
\* before whenever that endpoint is available (never failed, or failed more
\* than five minutes ago); markIPSuccess(e) changes only e's failure record,
\* so an endpoint that recovered is not switched to while the current one is
\* available.
C33_RepeatedAcquireKeepsAvailableEndpoint ==
    /\ ( /\ last.ev = "acquire"
         /\ last.previous # Undefined
         /\ isIPAvailable(last.before, last.previous, now) )
            => /\ last.ret = last.previous
               /\ currentIP = last.previous
    /\ MarkSuccessFrame

\* an endpoint earlier in the list recovered by markIPSuccess while another
\* one was current, and the next getAvailableServiceIP() stayed with the
\* current one
C33_Witness ==
    /\ last.ev = "acquire"
    /\ last.previous # Undefined
    /\ last.ret = last.previous
    /\ last.before.serviceIPs = ABC
    /\ last.ret # "A"
    /\ isIPAvailable(last.before, "A", now)

\* C35: a pre-resolve batch whose resolution failed leaves the cache as it
\* was, raises nothing, and is counted as failed by the completion summary,
\* which counts the batches whose promise Promise.allSettled reports as
\* rejected; a batch that succeeded is counted as succeeded.
C35_SummaryCountsFailedBatches ==
    (last.ev = "done" /\ last.task.origin = "preresolve")
        => /\ ~last.ok => cache = last.cacheBefore
           /\ last.ret = None
           /\ last.settled = (IF last.ok THEN "fulfilled" ELSE "rejected")

(***************************************************************************)
(* SpecMerged: a resolver built from mergeConfig(userConfig), the user     *)
(* configuration giving the stale-serving flag as true, as false or not at *)
(* all; the configuration the constructor was given is kept for reference. *)
(* An optional property of the user configuration is None when left out.   *)
(***************************************************************************)
UserConfigs ==
    [enableCache : {None}, enableExpiredIP : {None, Some(TRUE), Some(FALSE)},
     maxRetries : {None}, bootstrapIPs : {<<"b1">>}, logger : {TRUE}]

\* mergeConfig.  The result has no enableExpiredIP property: the resolver's
\* read of config.enableExpiredIP gives undefined, which the default
\* parameter of CacheManager.get turns into false.
mergeConfig(userConfig) ==
    [bootstrapIPs |-> userConfig.bootstrapIPs,
     maxRetries |-> IF userConfig.maxRetries # None THEN userConfig.maxRetries[1] ELSE 0,
     enableCache |-> IF userConfig.enableCache # None THEN userConfig.enableCache[1]
                     ELSE TRUE,
     enableExpiredIP |-> FALSE,
     logger |-> userConfig.logger]

InitMerged ==
    \E userConfig \in UserConfigs :
        /\ config = mergeConfig(userConfig)
        /\ now = 0
        /\ cache = EmptyMap
        /\ serviceIPs = <<>>
        /\ currentIP = Undefined
        /\ failedIPs = EmptyMap
        /\ fetching = None
        /\ tasks = EmptyBag
        /\ calls = 0
        /\ last = [ev |-> "init"]
        /\ client = [closed |-> FALSE, updateTimer |-> FALSE, waiting |-> 0,
                     userConfig |-> userConfig]

NextMerged ==
    \/ GetHttpDnsResultForHostSync({D_A}, DefaultQueryTypes)
    \/ GetHttpDnsResultForHostSyncNonBlocking({D_A}, DefaultQueryTypes)
    \/ HttpReply({})
    \/ DiscoveryReply
    \/ Tick

SpecMerged == InitMerged /\ [][NextMerged]_vars

\* C36: a resolver built from the merged configuration of a user
\* configuration with enableExpiredIP true serves an entry that is expired
\* for the lookup's selector and logs that it used expired cache; with
\* enableExpiredIP false or absent the lookup treats the entry as a miss.
C36_StaleFlagReachesResolver ==
    (/\ IsLookup
     /\ last.pre # None
     /\ ExpiredFor(last.pre[1], last.queryType))
    => IF client.userConfig.enableExpiredIP = Some(TRUE)
       THEN /\ last.outcome = "hit"
            /\ last.stale
            /\ last.ret = Some(RequestedView(last.pre[1], last.queryType))
       ELSE /\ last.outcome = "miss"
            /\ ~last.stale

\* C37: a discovery response is installed only if its list is not empty,
\* and a discovery request that fails or brings no list leaves the pool as
\* it was; so no step empties a non-empty endpoint list, and isHealthy()
\* answers true whenever the list is non-empty and the client is not closed.
C37_DiscoveryKeepsListNonEmpty ==
    [][ /\ Len(serviceIPs) > 0 => Len(serviceIPs') > 0
        /\ last'.ev = "discovery"
             => IF last'.got
                THEN serviceIPs' = last'.service_ip /\ Len(serviceIPs') > 0
                ELSE /\ serviceIPs' = serviceIPs
                     /\ currentIP' = currentIP
                     /\ failedIPs' = failedIPs
        /\ last'.ev = "isHealthy"
             => last'.ret = (Len(serviceIPs) > 0 /\ ~client.closed) ]_vars

\* with a list installed and the client open, a later discovery request
\* failed or brought an empty list, and the list is still there
C37_Witness ==
    /\ last.ev = "discovery"
    /\ ~last.got
    /\ last.settled = "rejected"
    /\ Len(last.listBefore) > 0
    /\ serviceIPs = last.listBefore
    /\ ~client.closed

\* C39: when a discovery run settles, fulfilled or rejected, the marker of
\* the run in flight is cleared in the same step; and a call of
\* fetchServiceIPs that finds the marker cleared starts a fresh run with a
\* request to the first bootstrap address instead of joining anything.
C39_SettledRunClearsMarker ==
    [][ /\ (last'.ev = "discovery" /\ last'.settled \in {"fulfilled", "rejected"})
             => fetching' = None
        /\ (last'.ev = "discovery" /\ last'.settled = "pending")
             => fetching' = Some([idx |-> last'.idx + 1])
        /\ ( /\ fetching = None
             /\ last'.ev \in {"update", "timer"}
             /\ last'.outcome = "awaiting" )
             => /\ ~last'.joined
                /\ last'.requests = 1
                /\ fetching' = Some([idx |-> 1]) ]_vars

\* the run started by the constructor has failed (the list is still empty),
\* and a manual refresh started a run of its own
C39_Witness ==
    /\ last.ev = "update"
    /\ last.outcome = "awaiting"
    /\ ~last.joined
    /\ serviceIPs = <<>>
    /\ fetching = Some([idx |-> 1])

\* a blocking resolve is waiting for its HTTP request
SyncInFlight == \E task \in BagToSet(tasks) : task.kind = "sync"

\* C40: provided every HTTP request of a resolution eventually completes or
\* times out, every blocking resolve eventually returns a record or a
\* failure result, whether any discovery request is ever answered or not;
\* and a resolution never has more than maxRetries + 1 requests behind it.
C40_BlockingResolveReturns ==
    /\ [](\A task \in BagToSet(tasks) :
            /\ task.attempt <= config.maxRetries
            /\ task.sent = task.attempt + 1)
    /\ SyncInFlight ~> (last.ev = "done" /\ last.task.kind = "sync" /\ last.ret # None)

\* a blocking resolve returned a failure result after its last attempt, the
\* maxRetries + 1-th, while the discovery run it triggered was still
\* unanswered
C40_Witness ==
    /\ last.ev = "done"
    /\ last.task.kind = "sync"
    /\ config.maxRetries = MaxRetriesBound
    /\ last.task.attempt = config.maxRetries
    /\ ~last.ok
    /\ last.ret = Some(FailedResult(last.task.domain, now))
    /\ fetching # None

====
